---- MODULE Spec2Model ----
(***************************************************************************)
(* Model of the Ethereum DeFi language server (the server.ts source that   *)
(* src/DEMO.md carries from line 26 on).  Strings are TLA+ strings, read   *)
(* character by character with SubSeq; a JavaScript Map is a function      *)
(* whose DOMAIN is the set of keys; every async handler is a stack of      *)
(* frames that is suspended at an external call and resumed by the         *)
(* response to that call.                                                  *)
(***************************************************************************)
EXTENDS Integers, Sequences, FiniteSets, TLC

(***************************************************************************)
(* Bounds of the model.                                                    *)
(***************************************************************************)
MaxTime == 2
MaxTasks == 1
MaxCandidates == 101

(***************************************************************************)
(* JavaScript values and string primitives.                                *)
(***************************************************************************)
UNDEFINED == "undefined"

Ch(s, i) == SubSeq(s, i, i)

Min(a, b) == IF a < b THEN a ELSE b

Max(a, b) == IF a > b THEN a ELSE b

\* String.prototype.substring(start, end) with 0-based arguments: both are
\* clamped to [0, length] and swapped when start > end.
Substring(s, start, end) ==
    LET a == Max(0, Min(start, Len(s)))
        b == Max(0, Min(end, Len(s)))
    IN  SubSeq(s, Min(a, b) + 1, Max(a, b))

StartsWith(s, p) == Len(s) >= Len(p) /\ SubSeq(s, 1, Len(p)) = p

\* String.prototype.includes
Includes(s, p) == \E i \in 1..(Len(s) - Len(p) + 1) : SubSeq(s, i, i + Len(p) - 1) = p

DigitChars == {"0", "1", "2", "3", "4", "5", "6", "7", "8", "9"}

LowerHexLetters == {"a", "b", "c", "d", "e", "f"}

UpperHexLetters == {"A", "B", "C", "D", "E", "F"}

HexChars == DigitChars \cup LowerHexLetters \cup UpperHexLetters

LowerAlphabet == "abcdefghijklmnopqrstuvwxyz"

UpperAlphabet == "ABCDEFGHIJKLMNOPQRSTUVWXYZ"

LetterChars == {Ch(LowerAlphabet, i) : i \in 1..26} \cup {Ch(UpperAlphabet, i) : i \in 1..26}

\* \w of a JavaScript regular expression
WordChars == LetterChars \cup DigitChars \cup {"_"}

UpperToLower ==
    [c \in {Ch(UpperAlphabet, i) : i \in 1..26} |->
        Ch(LowerAlphabet, CHOOSE i \in 1..26 : Ch(UpperAlphabet, i) = c)]

LowerCh(c) == IF c \in DOMAIN UpperToLower THEN UpperToLower[c] ELSE c

\* String.prototype.toLowerCase, by halves
RECURSIVE ToLowerCase(_)
ToLowerCase(s) ==
    IF Len(s) <= 1 THEN LowerCh(s)
    ELSE ToLowerCase(SubSeq(s, 1, Len(s) \div 2)) \o ToLowerCase(SubSeq(s, Len(s) \div 2 + 1, Len(s)))

AllIn(s, set) == \A i \in 1..Len(s) : Ch(s, i) \in set

\* a \b that holds wherever it is tried
BoundaryAfterAnything(text, i) == TRUE

\* \b after position i (1-based index of the last matched character): the
\* matched character is a word character, so the boundary holds iff the next
\* character is not one, or the text ends.
BoundaryAfter(text, i) == i >= Len(text) \/ Ch(text, i + 1) \notin WordChars

(***************************************************************************)
(* TextDocument: positions are [line, character], both 0-based.            *)
(***************************************************************************)
\* number of line breaks among the first n characters of text
LineBreaksBefore(text, n) == Cardinality({i \in 1..n : Ch(text, i) = "\n"})

\* 0-based offset at which the line holding the 0-based offset n starts
LineStart(text, n) ==
    LET breaks == {i \in 1..n : Ch(text, i) = "\n"}
    IN  IF breaks = {} THEN 0 ELSE CHOOSE i \in breaks : \A j \in breaks : j <= i

PositionAt(text, offset) ==
    LET o == Max(0, Min(offset, Len(text)))
    IN  [line |-> LineBreaksBefore(text, o), character |-> o - LineStart(text, o)]

\* 0-based offsets at which a line starts
LineStarts(text) == {0} \cup {i \in 1..Len(text) : Ch(text, i) = "\n"}

LineCount(text) == Cardinality(LineStarts(text))

\* offset of the start of line l (the text's length when l is past the end)
LineOffset(text, l) ==
    IF l >= LineCount(text) THEN Len(text)
    ELSE IF l < 0 THEN 0
    ELSE CHOOSE o \in LineStarts(text) : LineBreaksBefore(text, o) = l

OffsetAt(text, pos) ==
    LET lineOffset == LineOffset(text, pos.line)
        nextLineOffset == LineOffset(text, pos.line + 1)
    IN  IF pos.line >= LineCount(text) THEN Len(text)
        ELSE IF pos.line < 0 THEN 0
        ELSE Max(Min(lineOffset + pos.character, nextLineOffset), lineOffset)

\* TextDocument.getText(range)
GetTextRange(text, start, end) == Substring(text, OffsetAt(text, start), OffsetAt(text, end))

(***************************************************************************)
(* Token scanner.  A match position is the 1-based index of its first      *)
(* character; 0 stands for "no match".                                     *)
(***************************************************************************)
ADDRESS_HEX_LENGTH == 40

PRIVATE_KEY_HEX_LENGTH == 64

ENS_SUFFIX_LENGTH == 3

MAX_SCAN_MATCHES == 100

\* /0x[0-9a-fA-F]{40}\b/ matched at p
MatchAddressAt(text, p) ==
    /\ p + 1 + ADDRESS_HEX_LENGTH <= Len(text)
    /\ Ch(text, p) = "0"
    /\ Ch(text, p + 1) = "x"
    /\ AllIn(SubSeq(text, p + 2, p + 1 + ADDRESS_HEX_LENGTH), HexChars)
    /\ BoundaryAfter(text, p + 1 + ADDRESS_HEX_LENGTH)

\* /[0-9a-fA-F]{64}\b/ matched at p
MatchPrivateKeyAt(text, p) ==
    /\ p + PRIVATE_KEY_HEX_LENGTH - 1 <= Len(text)
    /\ BoundaryAfter(text, p + PRIVATE_KEY_HEX_LENGTH - 1)
    /\ AllIn(SubSeq(text, p, p + PRIVATE_KEY_HEX_LENGTH - 1), HexChars)

QuoteChars == {"\"", "'"}

\* [\w\d.]
NameChars == WordChars \cup {"."}

\* /["'][\w\d.]+[.][\w\d]{3}["']/ matched at p with k characters taken by the +
MatchENSNameWith(text, p, k) ==
    /\ k >= 1
    /\ p + k + ENS_SUFFIX_LENGTH + 2 <= Len(text)
    /\ Ch(text, p) \in QuoteChars
    /\ Ch(text, p + k + 1) = "."
    /\ Ch(text, p + k + ENS_SUFFIX_LENGTH + 2) \in QuoteChars
    /\ AllIn(SubSeq(text, p + k + 2, p + k + 1 + ENS_SUFFIX_LENGTH), WordChars)
    /\ AllIn(SubSeq(text, p + 1, p + k), NameChars)

MatchENSNameAt(text, p) ==
    Ch(text, p) \in QuoteChars /\ \E k \in 1..(Len(text) - p) : MatchENSNameWith(text, p, k)

\* length of the match at p: the + is greedy, so the largest k that matches
ENSMatchLength(text, p) ==
    LET ks == {k \in 1..(Len(text) - p) : MatchENSNameWith(text, p, k)}
        k == CHOOSE k \in ks : \A j \in ks : j <= k
    IN  k + ENS_SUFFIX_LENGTH + 3

\* RegExp.prototype.exec of a global pattern: the leftmost match at or after
\* the 1-based position from
NextAddressMatch(text, from) ==
    LET ps == {p \in from..Len(text) : MatchAddressAt(text, p)}
    IN  IF ps = {} THEN 0 ELSE CHOOSE p \in ps : \A q \in ps : p <= q

NextPrivateKeyMatch(text, from) ==
    LET ps == {p \in from..Len(text) : MatchPrivateKeyAt(text, p)}
    IN  IF ps = {} THEN 0 ELSE CHOOSE p \in ps : \A q \in ps : p <= q

NextENSNameMatch(text, from) ==
    LET ps == {p \in from..Len(text) : MatchENSNameAt(text, p)}
    IN  IF ps = {} THEN 0 ELSE CHOOSE p \in ps : \A q \in ps : p <= q

StringLocation(text, startOffset, endOffset, content) ==
    [range |-> [start |-> PositionAt(text, startOffset), end |-> PositionAt(text, endOffset)],
     content |-> content]

\* append 0x to the front of a hex string if it doesn't start with it
normalizeHex(hex) == IF ~StartsWith(hex, "0x") THEN "0x" \o hex ELSE hex

\* the while loop of findPossibleEthereumAddresses: problems is never increased
RECURSIVE AddressScanLoop(_, _, _, _)
AddressScanLoop(text, from, problems, locations) ==
    LET p == NextAddressMatch(text, from)
    IN  IF p = 0 \/ ~(problems < MAX_SCAN_MATCHES) THEN locations
        ELSE LET len == 2 + ADDRESS_HEX_LENGTH
             IN  AddressScanLoop(text, p + len, problems,
                     Append(locations,
                            StringLocation(text, p - 1, p - 1 + len, SubSeq(text, p, p + len - 1))))

findPossibleEthereumAddresses(text) == AddressScanLoop(text, 1, 0, <<>>)

\* the loop of findPossibleENSNames with the range of the whole match
RECURSIVE ENSScanLoopWholeMatch(_, _, _, _)
ENSScanLoopWholeMatch(text, from, problems, locations) ==
    LET p == NextENSNameMatch(text, from)
    IN  IF p = 0 \/ ~(problems < MAX_SCAN_MATCHES) THEN locations
        ELSE LET len == ENSMatchLength(text, p)
                 m0 == Substring(SubSeq(text, p, p + len - 1), 1, len - 1)
             IN  ENSScanLoopWholeMatch(text, p + len, problems,
                     Append(locations, StringLocation(text, p - 1, p - 1 + len, m0)))

RECURSIVE ENSScanLoop(_, _, _, _)
ENSScanLoop(text, from, problems, locations) ==
    LET p == NextENSNameMatch(text, from)
    IN  IF p = 0 \/ ~(problems < MAX_SCAN_MATCHES) THEN locations
        ELSE LET len == ENSMatchLength(text, p)
                 m0 == Substring(SubSeq(text, p, p + len - 1), 1, len - 1)
             IN  ENSScanLoop(text, p + len, problems,
                     Append(locations, StringLocation(text, p, p + Len(m0), m0)))

findPossibleENSNames(text) == ENSScanLoop(text, 1, 0, <<>>)

RECURSIVE PrivateKeyScanLoop(_, _, _, _)
PrivateKeyScanLoop(text, from, problems, locations) ==
    LET p == NextPrivateKeyMatch(text, from)
    IN  IF p = 0 \/ ~(problems < MAX_SCAN_MATCHES) THEN locations
        ELSE LET len == PRIVATE_KEY_HEX_LENGTH
             IN  PrivateKeyScanLoop(text, p + len, problems,
                     Append(locations,
                            StringLocation(text, p - 1, p - 1 + len,
                                           normalizeHex(SubSeq(text, p, p + len - 1)))))

findPossiblePrivateKeys(text) == PrivateKeyScanLoop(text, 1, 0, <<>>)

(***************************************************************************)
(* Validator / classifier.  web3.utils and the wallet library are outside  *)
(* the repository: the checksum casing (a Keccak-256 of the lower-case     *)
(* address) and the key derivation are given as tables over the addresses  *)
(* and keys that occur in the documents and responses of this model.       *)
(***************************************************************************)
VITALIK_ADDRESS == "0xd8dA6BF26964aF9D7eEd9e03E53415D37aA96045"

DAI_ADDRESS == "0x6B175474E89094C44Da98b954EedeAC495271d0F"

KEY_ONE_ADDRESS == "0x7E5F4552091A69125d5DfCb7b8C2659029395Bdf"

ZERO_ADDRESS == "0x0000000000000000000000000000000000000000"

\* the canonical mixed-case forms known to the model; the last four are
\* those of addresses with one, two, three and two letters
ChecksumForms ==
    {VITALIK_ADDRESS, DAI_ADDRESS, KEY_ONE_ADDRESS, ZERO_ADDRESS,
     "0x000000000000000000000000000000000000000A",
     "0x00000000000000000000000000000000000000Ad",
     "0x0000000000000000000000000000000000000aBc",
     "0x00000000000000000000000000000000000a000b"}

StripHexPrefix(s) == IF StartsWith(s, "0x") \/ StartsWith(s, "0X") THEN SubSeq(s, 3, Len(s)) ELSE s

\* /^(0x)?[0-9a-f]{40}$/i
IsAddressShape(address) ==
    LET body == StripHexPrefix(address)
    IN  Len(body) = ADDRESS_HEX_LENGTH /\ AllIn(body, HexChars)

\* web3.utils.toChecksumAddress; it throws on a string that is no address
ToChecksumThrows(address) == ~IsAddressShape(address)

toChecksumAddress(address) ==
    LET lower == "0x" \o ToLowerCase(StripHexPrefix(address))
    IN  CHOOSE c \in ChecksumForms : ToLowerCase(c) = lower

\* isAddress without the exemption of the single-case forms
isAddressByChecksumOnly(address) ==
    IsAddressShape(address) /\ StripHexPrefix(address) = StripHexPrefix(toChecksumAddress(address))

\* web3.utils.isAddress
isAddress(address) ==
    LET body == StripHexPrefix(address)
    IN  /\ IsAddressShape(address)
        /\ \/ AllIn(body, DigitChars \cup LowerHexLetters)
           \/ AllIn(body, DigitChars \cup UpperHexLetters)
           \/ body = StripHexPrefix(toChecksumAddress(address))

\* isValidEthereumAddress that looks at the shape only, not at the checksum
isValidEthereumAddressByShape(address) == IsAddressShape(address)

isValidEthereumAddress(address) == isAddress(address)

getChecksumAddress(address) ==
    IF ToChecksumThrows(address) THEN address ELSE toChecksumAddress(address)

\* order of the secp256k1 group, as 64 lower-case hex digits
CURVE_ORDER_HEX == "fffffffffffffffffffffffffffffffebaaedce6af48a03bbfd25e8cd0364141"

HexDigits == "0123456789abcdef"

HexValue(c) == CHOOSE v \in 0..15 : Ch(HexDigits, v + 1) = LowerCh(c)

\* a < b for two hex strings of the same length
HexLess(a, b) ==
    \E i \in 1..Len(a) :
        /\ \A j \in 1..(i - 1) : HexValue(Ch(a, j)) = HexValue(Ch(b, j))
        /\ HexValue(Ch(a, i)) < HexValue(Ch(b, i))

\* isPrivateKey that looks at the shape of the string only
isPrivateKeyByShape(possiblePrivateKey) ==
    /\ StartsWith(possiblePrivateKey, "0x")
    /\ Len(possiblePrivateKey) = PRIVATE_KEY_HEX_LENGTH + 2
    /\ AllIn(SubSeq(possiblePrivateKey, 3, Len(possiblePrivateKey)), HexChars)

\* EthUtil.toBuffer of a string followed by Wallet.fromPrivateKey: the string
\* must be 0x-prefixed hex, 32 bytes once padded to an even length, and a
\* scalar in 1..order-1
isPrivateKey(possiblePrivateKey) ==
    LET digits == SubSeq(possiblePrivateKey, 3, Len(possiblePrivateKey))
        padded == IF Len(digits) % 2 = 1 THEN "0" \o digits ELSE digits
    IN  /\ StartsWith(possiblePrivateKey, "0x")
        /\ AllIn(digits, HexChars)
        /\ Len(padded) = PRIVATE_KEY_HEX_LENGTH
        /\ ~AllIn(padded, {"0"})
        /\ HexLess(padded, CURVE_ORDER_HEX)

PRIVATE_KEY_ONE == "0x0000000000000000000000000000000000000000000000000000000000000001"

\* web3.eth.accounts.privateKeyToAccount(privateKey).address, for the one key
\* whose address the table holds
toPublicKey(privateKey) ==
    IF ToLowerCase(privateKey) = PRIVATE_KEY_ONE THEN KEY_ONE_ADDRESS ELSE ZERO_ADDRESS

(***************************************************************************)
(* The documents of the model, and what the scanner finds in them.         *)
(***************************************************************************)
URI == "file:///a.js"

ENS_NAME == "v.eth"

LOWER_ADDRESS == "0xd8da6bf26964af9d7eed9e03e53415d37aa96045"

\* VITALIK_ADDRESS with the case of its first letter flipped
BAD_CHECKSUM_ADDRESS == "0xD8dA6BF26964aF9D7eEd9e03E53415D37aA96045"

TEXT_ADDRESSES == "a = '" \o LOWER_ADDRESS \o "'\nb = " \o BAD_CHECKSUM_ADDRESS \o "\n"

TEXT_NAME_TOKEN == "send(\"" \o ENS_NAME \o "\", '" \o DAI_ADDRESS \o "')"

\* an address in lower case that is its own checksum form
LOWER_CHECKSUM_ADDRESS == "0x00000000000000000000000000000000000a000b"

TEXT_LOWER_CHECKSUM == "pay(" \o LOWER_CHECKSUM_ADDRESS \o ")"

Texts == {TEXT_ADDRESSES, TEXT_NAME_TOKEN, TEXT_LOWER_CHECKSUM}

\* the key one, the order of the curve, which is no key, and an address
TEXT_KEYS ==
    "key = " \o PRIVATE_KEY_ONE \o "\nn = " \o CURVE_ORDER_HEX \o "\nto = " \o LOWER_ADDRESS \o "\n"

TextsWithKeys == Texts \cup {TEXT_KEYS}

\* the Dai address in lower case, in upper case and in checksum form
DAI_LOWER == ToLowerCase(DAI_ADDRESS)

DAI_UPPER == "0x6B175474E89094C44DA98B954EEDEAC495271D0F"

TEXT_TOKEN_CASES == "a = " \o DAI_LOWER \o "\nb = " \o DAI_UPPER \o "\nc = " \o DAI_ADDRESS \o "\n"

ScannedTexts == TextsWithKeys \cup {TEXT_TOKEN_CASES}

\* findPossibleEthereumAddresses, findPossibleENSNames and
\* findPossiblePrivateKeys on the documents of the model, computed once
possibleEthereumAddresses == [text \in ScannedTexts |-> findPossibleEthereumAddresses(text)]

possibleEnsNames == [text \in ScannedTexts |-> findPossibleENSNames(text)]

possiblePublicKeys == [text \in ScannedTexts |-> findPossiblePrivateKeys(text)]

(***************************************************************************)
(* Server state.                                                           *)
(***************************************************************************)
VARIABLES
    hasConfigurationCapability, \* set by onInitialize
    globalSettings,             \* used when the client has no configuration support
    documentSettings,           \* uri -> settings requested for that document
    documents,                  \* uri -> [text, open]: the text document manager
    clientSettings,             \* the editor's current "defi" configuration section
    web3provider,               \* UNDEFINED or the provider's URL
    ens,                        \* UNDEFINED or the ENS handle built on a provider
    amberdataApiKeySetting,
    etherscanApiKeySetting,
    cacheDurationSetting,       \* <<>> (undefined) or <<milliseconds>>
    tokenListUrlSetting,
    ensCache,                   \* name -> address
    ensReverseCache,            \* address -> name
    tokenCache,                 \* address -> Token (never written by the server)
    topTokensCache,             \* address -> Token
    addressMarkdownCache,       \* address -> <<timestamp, markdown>>
    abiCache,                   \* address -> <<timestamp, ABI>>
    ensWrittenAt,               \* history: name or address -> Date.now() of its Map.set
    published,                  \* uri -> the diagnostics last sent for it
    sent,                       \* the message the last step sent to the editor
    log,                        \* what the last step read, wrote and called
    now,                        \* Date.now()
    tasks,                      \* the handlers in progress, each a stack of frames
    input,                      \* the argument a function of the server is applied to
    output,                     \* [fn, value]: the function last applied to input, and its value
    external                    \* api -> the answer of the outside world, where it is fixed

vars == <<hasConfigurationCapability, globalSettings, documentSettings, documents,
          clientSettings, web3provider, ens, amberdataApiKeySetting,
          etherscanApiKeySetting, cacheDurationSetting, tokenListUrlSetting, ensCache,
          ensReverseCache, tokenCache, topTokensCache, addressMarkdownCache, abiCache,
          ensWrittenAt, published, sent, log, now, tasks, input, output, external>>

\* the variables of the server and of its handlers
serverVars == <<hasConfigurationCapability, globalSettings, documentSettings, documents,
                clientSettings, web3provider, ens, amberdataApiKeySetting,
                etherscanApiKeySetting, cacheDurationSetting, tokenListUrlSetting, ensCache,
                ensReverseCache, tokenCache, topTokensCache, addressMarkdownCache, abiCache,
                ensWrittenAt, published, sent, log, now, tasks>>

NoFrame == [f |-> "none", calls |-> {}]

\* no handler ended in this step
NoMessage == [handler |-> "none", outcome |-> "ok", result |-> "", frame |-> NoFrame]

\* the server state as one record, handed through the handlers' code; what a
\* step sends and logs starts empty
Server ==
    [hasConfigurationCapability |-> hasConfigurationCapability,
     globalSettings |-> globalSettings,
     documentSettings |-> documentSettings,
     documents |-> documents,
     clientSettings |-> clientSettings,
     web3provider |-> web3provider,
     ens |-> ens,
     amberdataApiKeySetting |-> amberdataApiKeySetting,
     etherscanApiKeySetting |-> etherscanApiKeySetting,
     cacheDurationSetting |-> cacheDurationSetting,
     tokenListUrlSetting |-> tokenListUrlSetting,
     ensCache |-> ensCache,
     ensReverseCache |-> ensReverseCache,
     tokenCache |-> tokenCache,
     topTokensCache |-> topTokensCache,
     addressMarkdownCache |-> addressMarkdownCache,
     abiCache |-> abiCache,
     ensWrittenAt |-> ensWrittenAt,
     published |-> published,
     sent |-> NoMessage,
     log |-> <<>>,
     now |-> now]

Install(g) ==
    /\ hasConfigurationCapability' = g.hasConfigurationCapability
    /\ globalSettings' = g.globalSettings
    /\ documentSettings' = g.documentSettings
    /\ documents' = g.documents
    /\ clientSettings' = g.clientSettings
    /\ web3provider' = g.web3provider
    /\ ens' = g.ens
    /\ amberdataApiKeySetting' = g.amberdataApiKeySetting
    /\ etherscanApiKeySetting' = g.etherscanApiKeySetting
    /\ cacheDurationSetting' = g.cacheDurationSetting
    /\ tokenListUrlSetting' = g.tokenListUrlSetting
    /\ ensCache' = g.ensCache
    /\ ensReverseCache' = g.ensReverseCache
    /\ tokenCache' = g.tokenCache
    /\ topTokensCache' = g.topTokensCache
    /\ addressMarkdownCache' = g.addressMarkdownCache
    /\ abiCache' = g.abiCache
    /\ ensWrittenAt' = g.ensWrittenAt
    /\ published' = g.published
    /\ sent' = g.sent
    /\ log' = g.log
    /\ now' = g.now
    /\ UNCHANGED <<input, output, external>>

(***************************************************************************)
(* Maps, options, frames.                                                  *)
(***************************************************************************)
EmptyMap == <<>>

MapHas(m, k) == k \in DOMAIN m

MapSet(m, k, v) == [x \in (DOMAIN m) \cup {k} |-> IF x = k THEN v ELSE m[x]]

MapDelete(m, k) == [x \in (DOMAIN m) \ {k} |-> m[x]]

None == <<>>

Some(v) == <<v>>

Result(g, stack) == [g |-> g, stack |-> stack]

Logged(g, e) == [g EXCEPT !.log = Append(@, e)]

Top(stack) == stack[1]

Push(fr, stack) == <<fr>> \o stack

SetTop(stack, fr) == <<fr>> \o Tail(stack)

\* the handler's own frame is the bottom of the stack; it records the
\* external calls that were issued on its behalf
NoteCall(stack, api) == [stack EXCEPT ![Len(stack)].calls = @ \cup {api}]

\* the top frame awaits the response of an external call
Suspend(g, stack, api, arg) ==
    Result(Logged(g, [op |-> "call", api |-> api, arg |-> arg]), NoteCall(stack, api))

\* the handler returns its response to the editor
Finish(g, stack, result) ==
    Result([g EXCEPT !.sent = [handler |-> Top(stack).f, outcome |-> "ok",
                               result |-> result, frame |-> Top(stack)]],
           <<>>)

\* a rejection that nothing catches unwinds every frame of the handler
Throw(g, stack, error) ==
    Result([g EXCEPT !.sent = [handler |-> stack[Len(stack)].f, outcome |-> "exception",
                               result |-> error, frame |-> stack[Len(stack)]]],
           <<>>)

(***************************************************************************)
(* Settings and constants of the server.                                   *)
(***************************************************************************)
NAME == "Ethereum DeFi Language Support"

DIAGNOSTIC_TYPE_NOT_VALID_ADDRESS == "NotValidAddress"

DIAGNOSTIC_TYPE_NOT_CHECKSUM_ADDRESS == "NotChecksumAddress"

DIAGNOSTIC_TYPE_CONVERT_TO_ENS_NAME == "ConvertENSName"

DIAGNOSTIC_TYPE_CONVERT_FROM_ENS_NAME == "ConvertFromENSName"

DIAGNOSTIC_TYPE_GENERATE_ABI == "GenerateABI"

DEFAULT_TOKEN_LIST_JSON_URL == "https://gateway.ipfs.io/ipns/tokens.uniswap.org"

DEFAULT_MAX_PROBLEMS == 100

DEFAULT_CACHE_DURATION == 60000

defaultSettings ==
    [maxNumberOfProblems |-> DEFAULT_MAX_PROBLEMS, infuraProjectId |-> "",
     infuraProjectSecret |-> "", amberdataApiKey |-> "", etherscanApiKey |-> "",
     cacheDuration |-> Some(DEFAULT_CACHE_DURATION),
     tokenListJsonUrl |-> DEFAULT_TOKEN_LIST_JSON_URL]

InfuraProvider(settings) ==
    "https://:" \o settings.infuraProjectSecret \o "@mainnet.infura.io/v3/" \o settings.infuraProjectId

AmberdataProvider(key) == "https://rpc.web3api.io?x-api-key=" \o key

\* new ENS(web3provider)
NewENS(provider) == "ENS " \o provider

\* validateTextDocument, from the settings to the cache duration
ConfigureInfura(g, settings) ==
    IF settings.infuraProjectId = "" \/ settings.infuraProjectId = "" THEN g
    ELSE [g EXCEPT !.web3provider = InfuraProvider(settings),
                   !.ens = NewENS(InfuraProvider(settings))]

ConfigureAmberdata(g, settings) ==
    IF settings.amberdataApiKey = "" THEN g
    ELSE LET g1 == [g EXCEPT !.amberdataApiKeySetting = settings.amberdataApiKey]
         IN  IF g1.web3provider = UNDEFINED \/ g1.ens = UNDEFINED
             THEN [g1 EXCEPT !.web3provider = AmberdataProvider(g1.amberdataApiKeySetting),
                             !.ens = NewENS(AmberdataProvider(g1.amberdataApiKeySetting))]
             ELSE g1

ConfigureEtherscan(g, settings) ==
    IF settings.etherscanApiKey = "" THEN g
    ELSE [g EXCEPT !.etherscanApiKeySetting = settings.etherscanApiKey]

ConfigureTokenList(g, settings) ==
    IF settings.tokenListJsonUrl = "" THEN g
    ELSE [g EXCEPT !.tokenListUrlSetting = settings.tokenListJsonUrl]

\* ConfigureCacheDuration that also replaces a cache duration of zero
ConfigureCacheDurationReplacingZero(g, settings) ==
    IF settings.cacheDuration = None \/ settings.cacheDuration[1] <= 0
    THEN [g EXCEPT !.cacheDurationSetting = Some(DEFAULT_CACHE_DURATION)]
    ELSE [g EXCEPT !.cacheDurationSetting = settings.cacheDuration]

ConfigureCacheDuration(g, settings) ==
    IF settings.cacheDuration = None \/ settings.cacheDuration[1] < 0
    THEN [g EXCEPT !.cacheDurationSetting = Some(DEFAULT_CACHE_DURATION)]
    ELSE [g EXCEPT !.cacheDurationSetting = settings.cacheDuration]

Configure(g, settings) ==
    ConfigureCacheDuration(
        ConfigureTokenList(
            ConfigureEtherscan(
                ConfigureAmberdata(
                    ConfigureInfura(g, settings), settings), settings), settings), settings)

\* IsFresh with >= in the place of >
IsFreshInclusive(g, timestamp) ==
    /\ g.cacheDurationSetting # None
    /\ timestamp >= g.now - g.cacheDurationSetting[1]

\* cached[0] > (Date.now() - cacheDurationSetting); a comparison with NaN is false
IsFresh(g, timestamp) ==
    /\ g.cacheDurationSetting # None
    /\ timestamp > g.now - g.cacheDurationSetting[1]

(***************************************************************************)
(* External resolver: ENS and chain calls.  Ret(g, stack, v) hands the     *)
(* value v that a callee returned to the frame on top of the stack.        *)
(***************************************************************************)
\* the failure of an external call (a rejected promise, a request error)
FAIL == "<error>"

RECURSIVE Ret(_, _, _)

\* IsResolvedAddress comparing with a short zero
IsResolvedAddressShortZero(addr) == addr # "0x0"

\* addr != "0x0000000000000000000000000000000000000000"
IsResolvedAddress(addr) == addr # ZERO_ADDRESS

ENSLookup(g, stack, name) ==
    IF g.ens = UNDEFINED THEN Ret(g, stack, "")
    ELSE IF MapHas(g.ensCache, name)
    THEN Ret(Logged(g, [op |-> "hit", cache |-> "ensCache", key |-> name,
                        value |-> g.ensCache[name]]),
             stack, g.ensCache[name])
    ELSE Suspend(g, Push([f |-> "ENSLookup", at |-> "ens.resolver.addr", name |-> name], stack),
                 "ens.resolver.addr", name)

\* ENSLookupResume that drops the result of a lookup instead of caching it
ENSLookupResumeWithoutCache(g, stack, resp) ==
    LET name == Top(stack).name
        result == IF resp # FAIL /\ IsResolvedAddress(resp) THEN resp ELSE ""
    IN  Ret(Logged(g, [op |-> "return", fn |-> "ENSLookup", arg |-> name,
                       response |-> resp, result |-> result]),
            Tail(stack), result)

\* the then-callback, or the catch, of ens.resolver(name).addr()
ENSLookupResume(g, stack, resp) ==
    LET name == Top(stack).name
        positive == resp # FAIL /\ IsResolvedAddress(resp)
        result == IF positive THEN resp ELSE ""
        g1 == IF positive
              THEN Logged([g EXCEPT !.ensCache = MapSet(@, name, resp),
                                    !.ensWrittenAt = MapSet(@, name, g.now)],
                          [op |-> "set", cache |-> "ensCache", key |-> name, value |-> resp])
              ELSE g
    IN  Ret(Logged(g1, [op |-> "return", fn |-> "ENSLookup", arg |-> name,
                        response |-> resp, result |-> result]),
            Tail(stack), result)

reverseENSLookup(g, stack, address) ==
    IF g.ens = UNDEFINED THEN Ret(g, stack, "")
    ELSE IF MapHas(g.ensReverseCache, address)
    THEN Ret(Logged(g, [op |-> "hit", cache |-> "ensReverseCache", key |-> address,
                        value |-> g.ensReverseCache[address]]),
             stack, g.ensReverseCache[address])
    ELSE Suspend(g, Push([f |-> "reverseENSLookup", at |-> "ens.reverse.name",
                          address |-> address, name |-> ""], stack),
                 "ens.reverse.name", address)

\* the then-callback, or the catch, of ens.reverse(address).name()
ReverseResume(g, stack, resp) ==
    IF resp = FAIL
    THEN Ret(Logged(g, [op |-> "return", fn |-> "reverseENSLookup", arg |-> Top(stack).address,
                        response |-> FAIL, forward |-> "", result |-> ""]),
             Tail(stack), "")
    ELSE ENSLookup(g, SetTop(stack, [Top(stack) EXCEPT !.at = "ENSLookup", !.name = resp]), resp)

\* RoundTripConfirmed comparing addr with itself
RoundTripConfirmedWithItself(address, addr) == toChecksumAddress(addr) = toChecksumAddress(addr)

\* web3.utils.toChecksumAddress(address) == web3.utils.toChecksumAddress(addr)
RoundTripConfirmed(address, addr) == toChecksumAddress(address) = toChecksumAddress(addr)

\* ReverseRet that caches the name before the round trip is confirmed
ReverseRetCachingUnconfirmed(g, stack, addr) ==
    LET fr == Top(stack)
        confirmed == /\ ~ToChecksumThrows(fr.address)
                     /\ ~ToChecksumThrows(addr)
                     /\ RoundTripConfirmed(fr.address, addr)
        result == IF confirmed THEN fr.name ELSE ""
        g1 == Logged([g EXCEPT !.ensReverseCache = MapSet(@, fr.address, fr.name),
                               !.ensWrittenAt = MapSet(@, fr.address, g.now)],
                     [op |-> "set", cache |-> "ensReverseCache", key |-> fr.address,
                      value |-> fr.name])
    IN  Ret(Logged(g1, [op |-> "return", fn |-> "reverseENSLookup", arg |-> fr.address,
                        response |-> fr.name, forward |-> addr, result |-> result]),
            Tail(stack), result)

\* after `let addr = await ENSLookup(name)`: a throwing toChecksumAddress
\* rejects the promise chain, which the catch logs
ReverseRet(g, stack, addr) ==
    LET fr == Top(stack)
        confirmed == /\ ~ToChecksumThrows(fr.address)
                     /\ ~ToChecksumThrows(addr)
                     /\ RoundTripConfirmed(fr.address, addr)
        result == IF confirmed THEN fr.name ELSE ""
        g1 == IF confirmed
              THEN Logged([g EXCEPT !.ensReverseCache = MapSet(@, fr.address, fr.name),
                                    !.ensWrittenAt = MapSet(@, fr.address, g.now)],
                          [op |-> "set", cache |-> "ensReverseCache", key |-> fr.address,
                           value |-> fr.name])
              ELSE g
    IN  Ret(Logged(g1, [op |-> "return", fn |-> "reverseENSLookup", arg |-> fr.address,
                        response |-> fr.name, forward |-> addr, result |-> result]),
            Tail(stack), result)

\* code !== "0x"
HasCode(code) == code # "0x"

\* what isContract returns: called tells whether the code query was made,
\* response is its answer
ContractReturned(g, address, called, response, result) ==
    Logged(g, [op |-> "return", fn |-> "isContract", arg |-> address, called |-> called,
               response |-> response, result |-> result])

isContract(g, stack, address) ==
    IF g.web3provider = UNDEFINED
    THEN Ret(ContractReturned(g, address, FALSE, "", FALSE), stack, FALSE)
    ELSE Suspend(g, Push([f |-> "isContract", at |-> "eth.getCode", address |-> address], stack),
                 "eth.getCode", address)

\* the resumption of isContract that takes any answered code for bytecode
IsContractResumeAnyCode(g, stack, resp) ==
    Ret(ContractReturned(g, Top(stack).address, TRUE, resp, resp # FAIL), Tail(stack),
        resp # FAIL)

IsContractResume(g, stack, resp) ==
    LET result == resp # FAIL /\ HasCode(resp)
    IN  Ret(ContractReturned(g, Top(stack).address, TRUE, resp, result), Tail(stack), result)

(***************************************************************************)
(* Diagnostics: validateTextDocument.                                      *)
(***************************************************************************)
\* addDiagnostic that pushes the diagnostic twice
addDiagnosticTwice(fr, element, message, severity, code) ==
    LET diagnostic == [severity |-> severity, range |-> element.range, message |-> message,
                       source |-> NAME, code |-> code]
    IN  [fr EXCEPT !.diagnostics = @ \o <<diagnostic, diagnostic>>]

addDiagnostic(fr, element, message, severity, code) ==
    [fr EXCEPT !.diagnostics =
        Append(@, [severity |-> severity, range |-> element.range, message |-> message,
                   source |-> NAME, code |-> code])]

\* getDocumentSettings: the settings the returned promise resolves to
SettingsFor(g, uri) ==
    IF ~g.hasConfigurationCapability THEN g.globalSettings
    ELSE IF MapHas(g.documentSettings, uri) THEN g.documentSettings[uri]
    ELSE g.clientSettings

getDocumentSettings(g, uri) ==
    IF ~g.hasConfigurationCapability \/ MapHas(g.documentSettings, uri) THEN g
    ELSE [g EXCEPT !.documentSettings = MapSet(@, uri, g.clientSettings)]

\* validateTextDocument up to `await getDocumentSettings(textDocument.uri)`
validateTextDocument(g, uri) ==
    Suspend(getDocumentSettings(g, uri),
            <<[f |-> "validateTextDocument", at |-> "getDocumentSettings", uri |-> uri,
               settings |-> SettingsFor(g, uri), addresses |-> <<>>, names |-> <<>>, i |-> 1,
               problems |-> 0, diagnostics |-> <<>>, calls |-> {}]>>,
            "workspace.getConfiguration", uri)

\* problems < settings.maxNumberOfProblems
UnderProblemLimit(problems, settings) == problems < settings.maxNumberOfProblems

RECURSIVE ValidateAddresses(_, _)
RECURSIVE ValidateNames(_, _)

\* the loop over possibleEthereumAddresses, from element i to the next await
ValidateAddresses(g, stack) ==
    LET fr == Top(stack)
        text == g.documents[fr.uri].text
    IN  IF fr.i > Len(fr.addresses)
        THEN ValidateNames(g, SetTop(stack, [fr EXCEPT !.i = 1, !.names = possibleEnsNames[text]]))
        ELSE LET element == fr.addresses[fr.i]
             IN  IF ~UnderProblemLimit(fr.problems, fr.settings)
                 THEN ValidateAddresses(g, SetTop(stack, [fr EXCEPT !.i = @ + 1]))
                 ELSE IF ~isValidEthereumAddress(element.content)
                 THEN ValidateAddresses(g, SetTop(stack,
                          addDiagnostic([fr EXCEPT !.i = @ + 1, !.problems = @ + 1], element,
                                        element.content \o " is not a valid Ethereum address",
                                        "Error", DIAGNOSTIC_TYPE_NOT_VALID_ADDRESS)))
                 ELSE LET checksumAddress == toChecksumAddress(element.content)
                          fr1 == [fr EXCEPT !.problems = @ + 1, !.at = "reverseENSLookup"]
                          fr2 == IF element.content # checksumAddress
                                 THEN addDiagnostic(fr1, element,
                                          element.content \o " is not a checksum address", "Warning",
                                          DIAGNOSTIC_TYPE_NOT_CHECKSUM_ADDRESS \o checksumAddress)
                                 ELSE fr1
                      IN  reverseENSLookup(g, SetTop(stack, fr2), element.content)

\* ValidateNames that ends without sending the diagnostics
RECURSIVE ValidateNamesWithoutSending(_, _)
ValidateNamesWithoutSending(g, stack) ==
    LET fr == Top(stack)
    IN  IF fr.i > Len(fr.names) THEN Result(g, <<>>)
        ELSE IF ~UnderProblemLimit(fr.problems, fr.settings)
        THEN ValidateNamesWithoutSending(g, SetTop(stack, [fr EXCEPT !.i = @ + 1]))
        ELSE ENSLookup(g, SetTop(stack, [fr EXCEPT !.at = "ENSLookup"]), fr.names[fr.i].content)

\* the loop over possibleEnsNames, from element i to the next await
ValidateNames(g, stack) ==
    LET fr == Top(stack)
    IN  IF fr.i > Len(fr.names)
        THEN Finish([g EXCEPT !.published = MapSet(@, fr.uri, fr.diagnostics)], stack, fr.diagnostics)
        ELSE IF ~UnderProblemLimit(fr.problems, fr.settings)
        THEN ValidateNames(g, SetTop(stack, [fr EXCEPT !.i = @ + 1]))
        ELSE ENSLookup(g, SetTop(stack, [fr EXCEPT !.at = "ENSLookup"]), fr.names[fr.i].content)

\* the settings arrived: configure, scan, and start the loop
ValidateResume(g, stack, settings) ==
    LET fr == Top(stack)
        text == g.documents[fr.uri].text
    IN  ValidateAddresses(Configure(g, settings),
                          SetTop(stack, [fr EXCEPT !.addresses = possibleEthereumAddresses[text]]))

\* a callee returned v to validateTextDocument
ValidateRet(g, stack, v) ==
    LET fr == Top(stack)
    IN  CASE fr.at = "reverseENSLookup" ->
               LET element == fr.addresses[fr.i]
                   fr1 == IF v # ""
                          THEN addDiagnostic(fr, element,
                                   element.content \o " can be converted to its ENS name \"" \o v \o "\"",
                                   "Hint", DIAGNOSTIC_TYPE_CONVERT_TO_ENS_NAME \o v)
                          ELSE fr
               IN  isContract(g, SetTop(stack, [fr1 EXCEPT !.at = "isContract"]), element.content)
          [] fr.at = "isContract" ->
               LET element == fr.addresses[fr.i]
                   fr1 == IF v
                          THEN addDiagnostic(fr, element, "Generate contract ABI", "Hint",
                                             DIAGNOSTIC_TYPE_GENERATE_ABI \o element.content)
                          ELSE fr
               IN  ValidateAddresses(g, SetTop(stack, [fr1 EXCEPT !.i = @ + 1]))
          [] fr.at = "ENSLookup" ->
               LET element == fr.names[fr.i]
                   fr1 == IF v # ""
                          THEN addDiagnostic([fr EXCEPT !.problems = @ + 1], element,
                                   element.content \o " can be converted to its Ethereum address",
                                   "Hint", DIAGNOSTIC_TYPE_CONVERT_FROM_ENS_NAME \o v)
                          ELSE fr
               IN  ValidateNames(g, SetTop(stack, [fr1 EXCEPT !.i = @ + 1]))

(***************************************************************************)
(* Token list, market data, address markdown, contract ABI.                *)
(***************************************************************************)
\* the outcome of a `request`: an error, or a body that JSON.parse and the
\* field checks accept (Some) or do not (None)
HttpError == [error |-> TRUE, body |-> None]

HttpUnusable == [error |-> FALSE, body |-> None]

HttpBody(body) == [error |-> FALSE, body |-> Some(body)]

HasBody(resp) == ~resp.error /\ resp.body # None

MAINNET_CHAIN_ID == "1"

\* by how much Date.now() advanced while the callback of the request ran
Elapsed(resp) == IF "elapsed" \in DOMAIN resp THEN resp.elapsed ELSE 0

\* result.tokens.forEach(...): mainnet entries only, keyed by checksum address;
\* Date.now() is read for every element: time for the first, later for the rest
RECURSIVE BuildTopTokens(_, _, _, _)
BuildTopTokens(tokens, time, later, topTokensMap) ==
    IF tokens = <<>> THEN topTokensMap
    ELSE LET element == Head(tokens)
             token == [name |-> element.name, symbol |-> element.symbol,
                       address |-> getChecksumAddress(element.address),
                       marketData |-> None, lastUpdated |-> time]
         IN  BuildTopTokens(Tail(tokens), later, later,
                 IF element.chainId = MAINNET_CHAIN_ID
                 THEN MapSet(topTokensMap, token.address, token)
                 ELSE topTokensMap)

\* value.lastUpdated > (Date.now() - cacheDurationSetting) for some entry
TopTokensFresh(g) ==
    \E address \in DOMAIN g.topTokensCache : IsFresh(g, g.topTokensCache[address].lastUpdated)

getTopTokens(g, stack) ==
    IF g.topTokensCache # EmptyMap /\ TopTokensFresh(g)
    THEN Ret(Logged(g, [op |-> "hit", cache |-> "topTokensCache", key |-> "",
                        value |-> g.topTokensCache]),
             stack, g.topTokensCache)
    ELSE Suspend(g, Push([f |-> "getTopTokens", at |-> "request.tokenList"], stack),
                 "request.tokenList", g.tokenListUrlSetting)

\* the snapshot that replaces topTokensCache once the request has settled
DownloadedTopTokens(g, resp) ==
    IF ~HasBody(resp) THEN EmptyMap
    ELSE BuildTopTokens(resp.body[1].tokens, g.now, g.now + Elapsed(resp), EmptyMap)

TopTokensResume(g, stack, resp) ==
    LET topTokensMap == DownloadedTopTokens(g, resp)
        g1 == Logged([g EXCEPT !.topTokensCache = topTokensMap, !.now = @ + Elapsed(resp)],
                     [op |-> "set", cache |-> "topTokensCache", key |-> "", value |-> topTokensMap])
    IN  Ret(Logged(g1, [op |-> "return", fn |-> "getTopTokens", arg |-> "",
                        response |-> resp, result |-> topTokensMap]),
            Tail(stack), topTokensMap)

\* getToken that looks the address up in its checksum form
getTokenInAnyCase(topTokens, address) ==
    IF MapHas(topTokens, getChecksumAddress(address))
    THEN Some(topTokens[getChecksumAddress(address)])
    ELSE None

\* (await getTopTokens()).get(address): None when the address is no key
getToken(topTokens, address) ==
    IF MapHas(topTokens, address) THEN Some(topTokens[address]) ELSE None

getTokenName(token) == token.name \o " (" \o token.symbol \o ")"

\* Intl.NumberFormat currency formatting of the prices the model's responses carry
dollarFormat(amount) ==
    CASE amount = "1" -> "$1.00"
      [] amount = "2" -> "$2.00"
      [] OTHER -> amount

TokenMarkdown(token) ==
    "**Token: " \o token.name \o " (" \o token.symbol \o ")**\n\n"
    \o (IF token.marketData # None /\ token.marketData[1].price # None
        THEN "**Price:** " \o dollarFormat(token.marketData[1].price[1]) \o " USD  \n"
        ELSE "")

\* token.marketData === undefined || token.lastUpdated <= (Date.now() - cacheDurationSetting)
MarketDataStale(g, token) ==
    \/ token.marketData = None
    \/ (g.cacheDurationSetting # None /\ token.lastUpdated <= g.now - g.cacheDurationSetting[1])

getMarkdownForToken(g, stack, token) ==
    IF MarketDataStale(g, token)
    THEN Suspend(g, Push([f |-> "getMarkdownForToken", at |-> "request.coingecko", token |-> token],
                         stack),
                 "request.coingecko", token.address)
    ELSE Ret(g, stack, TokenMarkdown(token))

\* token.marketData = marketData mutates the Token object, which the snapshot
\* shares while it still holds that object
TokenMarketResume(g, stack, resp) ==
    LET token == Top(stack).token
        token1 == IF ~HasBody(resp) THEN token
                  ELSE [token EXCEPT !.marketData = resp.body]
        shared == MapHas(g.topTokensCache, token.address) /\ g.topTokensCache[token.address] = token
        g1 == IF shared THEN [g EXCEPT !.topTokensCache[token.address] = token1] ELSE g
    IN  Ret(g1, Tail(stack), TokenMarkdown(token1))

\* web3.utils.fromWei of the balances the model's responses carry
fromWei(balance) ==
    CASE balance = "1000000000000000000" -> "1"
      [] OTHER -> "0"

\* balance > BigNumber(0)
BalancePositive(balance) == balance # "0"

CacheMarkdown(g, address, buf) ==
    Logged([g EXCEPT !.addressMarkdownCache = MapSet(@, address, <<g.now, buf>>)],
           [op |-> "set", cache |-> "addressMarkdownCache", key |-> address, value |-> buf])

getMarkdownForRegularAddress(g, stack, address) ==
    LET buf == "**Ethereum Address**: " \o address \o "\n\n"
        missed == Logged(g, [op |-> "miss", cache |-> "addressMarkdownCache", key |-> address])
    IN  IF MapHas(g.addressMarkdownCache, address) /\ IsFresh(g, g.addressMarkdownCache[address][1])
        THEN Ret(Logged(g, [op |-> "hit", cache |-> "addressMarkdownCache", key |-> address,
                            value |-> g.addressMarkdownCache[address]]),
                 stack, g.addressMarkdownCache[address][2])
        ELSE IF g.web3provider = UNDEFINED THEN Ret(missed, stack, buf)
        ELSE reverseENSLookup(missed,
                 Push([f |-> "getMarkdownForRegularAddress", at |-> "reverseENSLookup",
                       address |-> address, buf |-> buf, balance |-> "0"], stack),
                 address)

\* reverseENSLookup returned: append the name, then await eth.getBalance
RegularAddressRet(g, stack, ensName) ==
    LET fr == Top(stack)
        buf == IF ensName # "" THEN fr.buf \o "**ENS Name**: " \o ensName \o "\n\n" ELSE fr.buf
    IN  Suspend(g, SetTop(stack, [fr EXCEPT !.at = "eth.getBalance", !.buf = buf]),
                "eth.getBalance", fr.address)

RegularAddressResume(g, stack, resp) ==
    LET fr == Top(stack)
    IN  CASE fr.at = "eth.getBalance" ->
               IF resp = FAIL THEN Throw(g, stack, "eth.getBalance")
               ELSE LET buf == IF BalancePositive(resp)
                               THEN fr.buf \o "**Ether Balance**:\n\n    " \o fromWei(resp) \o " ETH"
                               ELSE fr.buf
                        fr1 == [fr EXCEPT !.buf = buf, !.balance = resp]
                    IN  IF g.amberdataApiKeySetting # ""
                        THEN IF BalancePositive(resp)
                             THEN Suspend(g, SetTop(stack, [fr1 EXCEPT !.at = "request.accountBalance"]),
                                          "request.accountBalance", fr.address)
                             ELSE Suspend(g, SetTop(stack, [fr1 EXCEPT !.at = "request.tokens"]),
                                          "request.tokens", fr.address)
                        ELSE Ret(CacheMarkdown(g, fr.address, buf), Tail(stack), buf)
          [] fr.at = "request.accountBalance" ->
               LET buf == (IF ~HasBody(resp) THEN fr.buf
                           ELSE fr.buf \o " (" \o dollarFormat(resp.body[1].total) \o " USD @ "
                                \o dollarFormat(resp.body[1].quote) \o ")") \o "\n\n"
               IN  Suspend(g, SetTop(stack, [fr EXCEPT !.at = "request.tokens", !.buf = buf]),
                           "request.tokens", fr.address)
          [] fr.at = "request.tokens" ->
               LET buf == IF ~HasBody(resp) THEN fr.buf
                          ELSE fr.buf \o "**Tokens**:\n\n    " \o resp.body[1].amount \o " "
                               \o resp.body[1].symbol \o " \n"
               IN  Ret(CacheMarkdown(g, fr.address, buf), Tail(stack), buf)

\* AbiAccepted that does not look at the status
AbiAcceptedAnyStatus(body) == body.result # None

\* result.status === "1" && result.result !== undefined
AbiAccepted(body) == body.status = "1" /\ body.result # None

getContractAbi(g, stack, address) ==
    IF MapHas(g.abiCache, address) /\ IsFresh(g, g.abiCache[address][1])
    THEN Ret(Logged(g, [op |-> "hit", cache |-> "abiCache", key |-> address,
                        value |-> g.abiCache[address]]),
             stack, Some(g.abiCache[address][2]))
    ELSE LET missed == Logged(g, [op |-> "miss", cache |-> "abiCache", key |-> address])
         IN  IF g.etherscanApiKeySetting # ""
             THEN Suspend(missed,
                          Push([f |-> "getContractAbi", at |-> "request.getabi", address |-> address],
                               stack),
                          "request.getabi", address)
             ELSE Ret(missed, stack, None)

ContractAbiResume(g, stack, resp) ==
    LET address == Top(stack).address
        returned(g1, abi) ==
            Ret(Logged(g1, [op |-> "return", fn |-> "getContractAbi", arg |-> address,
                            response |-> resp, result |-> abi]),
                Tail(stack), abi)
    IN  IF HasBody(resp) /\ AbiAccepted(resp.body[1])
        THEN returned(Logged([g EXCEPT !.abiCache =
                                  MapSet(@, address, <<g.now, resp.body[1].result[1]>>)],
                             [op |-> "set", cache |-> "abiCache", key |-> address,
                              value |-> resp.body[1].result[1]]),
                      resp.body[1].result)
        ELSE returned(g, None)

(***************************************************************************)
(* Hover.                                                                  *)
(***************************************************************************)
\* /[^0-9a-zA-Z.]{1}/g: boundaries are: not alphanumeric or dot
IsBoundaryChar(c) == c \notin (LetterChars \cup DigitChars \cup {"."})

\* indexOfRegex / lastIndexOfRegex: the 0-based index of the first / last
\* boundary character, -1 when there is none
indexOfRegex(text) ==
    LET ms == {i \in 1..Len(text) : IsBoundaryChar(Ch(text, i))}
    IN  IF ms = {} THEN -1 ELSE (CHOOSE i \in ms : \A j \in ms : i <= j) - 1

lastIndexOfRegex(text) ==
    LET ms == {i \in 1..Len(text) : IsBoundaryChar(Ch(text, i))}
    IN  IF ms = {} THEN -1 ELSE (CHOOSE i \in ms : \A j \in ms : i >= j) - 1

getWord(text, index) ==
    LET beginSubstring == Substring(text, 0, index)
        endSubstring == Substring(text, index, Len(text))
        first == lastIndexOfRegex(beginSubstring) + 1
        last == index + indexOfRegex(endSubstring)
    IN  Substring(text, IF first # -1 THEN first ELSE 0, IF last # -1 THEN last ELSE Len(text) - 1)

\* documents.get(uri): None when the document is not open
GetDocument(g, uri) ==
    IF MapHas(g.documents, uri) /\ g.documents[uri].open THEN Some(g.documents[uri].text) ELSE None

getHoverMarkdownForAddress(g, stack, address) ==
    getTopTokens(g, Push([f |-> "getHoverMarkdownForAddress", at |-> "getTopTokens",
                          address |-> address], stack))

\* HoverMarkdownRet that renders the regular address after the token block
HoverMarkdownRetBothBlocks(g, stack, v) ==
    LET fr == Top(stack)
    IN  CASE fr.at = "getTopTokens" ->
               LET token == getToken(v, fr.address)
               IN  IF token # None
                   THEN getMarkdownForToken(g, SetTop(stack, [fr EXCEPT !.at = "getMarkdownForToken"]),
                                            token[1])
                   ELSE getMarkdownForRegularAddress(g,
                            SetTop(stack, [fr EXCEPT !.at = "getMarkdownForRegularAddress"]),
                            fr.address)
          [] fr.at = "getMarkdownForToken" ->
               getMarkdownForRegularAddress(g,
                   SetTop(stack, [fr EXCEPT !.at = "getMarkdownForRegularAddress"]), fr.address)
          [] fr.at = "getMarkdownForRegularAddress" -> Ret(g, Tail(stack), v)

\* getMarkdownForTokenAddress (with getToken), then getMarkdownForRegularAddress
\* when the token block is empty
HoverMarkdownRet(g, stack, v) ==
    LET fr == Top(stack)
    IN  CASE fr.at = "getTopTokens" ->
               LET token == getToken(v, fr.address)
               IN  IF token # None
                   THEN getMarkdownForToken(g, SetTop(stack, [fr EXCEPT !.at = "getMarkdownForToken"]),
                                            token[1])
                   ELSE getMarkdownForRegularAddress(g,
                            SetTop(stack, [fr EXCEPT !.at = "getMarkdownForRegularAddress"]),
                            fr.address)
          [] fr.at = "getMarkdownForToken" ->
               IF v = ""
               THEN getMarkdownForRegularAddress(g,
                        SetTop(stack, [fr EXCEPT !.at = "getMarkdownForRegularAddress"]), fr.address)
               ELSE Ret(g, Tail(stack), v)
          [] fr.at = "getMarkdownForRegularAddress" -> Ret(g, Tail(stack), v)

\* onHover that looks the word up as a name before it tests for a key
onHoverNameBeforeKey(g, uri, position) ==
    LET textDocument == GetDocument(g, uri)
        frame(word, at) == [f |-> "onHover", at |-> at, uri |-> uri, position |-> position,
                            word |-> word, calls |-> {}]
    IN  IF textDocument = None THEN Finish(g, <<frame("", "getHoverMarkdownForAddress")>>, "")
        ELSE LET start == [line |-> position.line, character |-> 0]
                 end == [line |-> position.line + 1, character |-> 0]
                 text == GetTextRange(textDocument[1], start, end)
                 index == OffsetAt(textDocument[1], position) - OffsetAt(textDocument[1], start)
                 word == getWord(text, index)
             IN  IF isValidEthereumAddress(word)
                 THEN getHoverMarkdownForAddress(g, <<frame(word, "getHoverMarkdownForAddress")>>, word)
                 ELSE ENSLookup(g, <<frame(word, "ENSLookup")>>, word)

onHover(g, uri, position) ==
    LET textDocument == GetDocument(g, uri)
        frame(word, at) == [f |-> "onHover", at |-> at, uri |-> uri, position |-> position,
                            word |-> word, calls |-> {}]
    IN  IF textDocument = None THEN Finish(g, <<frame("", "getHoverMarkdownForAddress")>>, "")
        ELSE LET start == [line |-> position.line, character |-> 0]
                 end == [line |-> position.line + 1, character |-> 0]
                 text == GetTextRange(textDocument[1], start, end)
                 index == OffsetAt(textDocument[1], position) - OffsetAt(textDocument[1], start)
                 word == getWord(text, index)
                 normalized == normalizeHex(word)
             IN  IF isValidEthereumAddress(word)
                 THEN getHoverMarkdownForAddress(g, <<frame(word, "getHoverMarkdownForAddress")>>, word)
                 ELSE IF isPrivateKey(normalized)
                 THEN getHoverMarkdownForAddress(g, <<frame(word, "getHoverMarkdownForAddress")>>,
                                                 toPublicKey(normalized))
                 ELSE ENSLookup(g, <<frame(word, "ENSLookup")>>, word)

HoverRet(g, stack, v) ==
    LET fr == Top(stack)
    IN  CASE fr.at = "ENSLookup" ->
               IF v # ""
               THEN getHoverMarkdownForAddress(g,
                        SetTop(stack, [fr EXCEPT !.at = "getHoverMarkdownForAddress"]), v)
               ELSE Finish(g, stack, "")
          [] fr.at = "getHoverMarkdownForAddress" -> Finish(g, stack, v)

(***************************************************************************)
(* Code actions.                                                           *)
(***************************************************************************)
\* getQuickFix with an edit that inserts at the end of the range
getQuickFixInserting(diagnostic, title, range, replacement, uri) ==
    [title |-> title, kind |-> "quickfix",
     edit |-> [uri |-> uri, range |-> [start |-> range.end, end |-> range.end],
               newText |-> replacement],
     diagnostics |-> <<diagnostic>>]

getQuickFix(diagnostic, title, range, replacement, uri) ==
    [title |-> title, kind |-> "quickfix",
     edit |-> [uri |-> uri, range |-> range, newText |-> replacement],
     diagnostics |-> <<diagnostic>>]

\* range is diagnostic.range itself: the four assignments move both
MovedToNextLine(range) ==
    [start |-> [line |-> range.start.line + 1, character |-> 0],
     end |-> [line |-> range.end.line + 1, character |-> 0]]

\* getRefactorExtract that inserts at the diagnostic in place of the next line
getRefactorExtractInPlace(diagnostic, title, range, insert, uri) ==
    [title |-> title, kind |-> "refactor.extract",
     edit |-> [uri |-> uri, range |-> range,
               newText |-> "\nconst CONTRACT_ABI = " \o insert \o "\n\n"],
     diagnostics |-> <<diagnostic>>]

getRefactorExtract(diagnostic, title, range, insert, uri) ==
    LET moved == MovedToNextLine(range)
    IN  [title |-> title, kind |-> "refactor.extract",
         edit |-> [uri |-> uri, range |-> moved,
                   newText |-> "\nconst CONTRACT_ABI = " \o insert \o "\n\n"],
         diagnostics |-> <<[diagnostic EXCEPT !.range = moved]>>]

RECURSIVE CodeActionsLoop(_, _)
\* the loop of getCodeActions, from diagnostic i to the next await
CodeActionsLoop(g, stack) ==
    LET fr == Top(stack)
    IN  IF fr.i > Len(fr.diagnostics) THEN Finish(g, stack, fr.codeActions)
        ELSE LET diagnostic == fr.diagnostics[fr.i]
                 code == diagnostic.code
                 next(title, type) ==
                     CodeActionsLoop(g, SetTop(stack,
                         [fr EXCEPT !.i = @ + 1,
                                    !.codeActions = Append(@, getQuickFix(diagnostic, title,
                                        diagnostic.range, Substring(code, Len(type), Len(code)),
                                        fr.uri))]))
             IN  IF StartsWith(code, DIAGNOSTIC_TYPE_NOT_CHECKSUM_ADDRESS)
                 THEN next("Convert to checksum address", DIAGNOSTIC_TYPE_NOT_CHECKSUM_ADDRESS)
                 ELSE IF StartsWith(code, DIAGNOSTIC_TYPE_CONVERT_TO_ENS_NAME)
                 THEN next("Convert to ENS name \""
                           \o Substring(code, Len(DIAGNOSTIC_TYPE_CONVERT_TO_ENS_NAME), Len(code))
                           \o "\"", DIAGNOSTIC_TYPE_CONVERT_TO_ENS_NAME)
                 ELSE IF StartsWith(code, DIAGNOSTIC_TYPE_CONVERT_FROM_ENS_NAME)
                 THEN next("Convert to Ethereum address", DIAGNOSTIC_TYPE_CONVERT_FROM_ENS_NAME)
                 ELSE IF StartsWith(code, DIAGNOSTIC_TYPE_GENERATE_ABI)
                 THEN getContractAbi(g, stack,
                          Substring(code, Len(DIAGNOSTIC_TYPE_GENERATE_ABI), Len(code)))
                 ELSE CodeActionsLoop(g, SetTop(stack, [fr EXCEPT !.i = @ + 1]))

\* getContractAbi returned abi (None for undefined)
CodeActionsRet(g, stack, abi) ==
    LET fr == Top(stack)
        diagnostic == fr.diagnostics[fr.i]
        action == getRefactorExtract(diagnostic, "Generate contract ABI", diagnostic.range,
                                     abi[1], fr.uri)
    IN  IF abi # None
        THEN CodeActionsLoop(g, SetTop(stack,
                 [fr EXCEPT !.i = @ + 1, !.codeActions = Append(@, action),
                            !.diagnostics[fr.i] = action.diagnostics[1]]))
        ELSE CodeActionsLoop(g, SetTop(stack, [fr EXCEPT !.i = @ + 1]))

onCodeAction(g, uri, diagnostics) ==
    LET stack == <<[f |-> "onCodeAction", at |-> "getContractAbi", uri |-> uri,
                    context |-> diagnostics, diagnostics |-> diagnostics, i |-> 1,
                    codeActions |-> <<>>, calls |-> {}]>>
    IN  IF GetDocument(g, uri) = None THEN Finish(g, stack, <<>>)
        ELSE CodeActionsLoop(g, stack)

(***************************************************************************)
(* Completion.                                                             *)
(***************************************************************************)
UNISWAP_IMPORTS ==
    "import { ChainId, Token, TokenAmount, Pair, Trade, TradeType, Route } from '@uniswap/sdk'\n"

PTOKENS_IMPORTS == "import { pTokens } from 'ptokens'\n"

\* the eight snippets of onCompletion, in the order of their insertSnippet
\* calls; each snippet's text is cut to its first words
Snippets ==
    <<[label |-> "DeFi: Uniswap SDK - Token", imports |-> Some(UNISWAP_IMPORTS), sortOrder |-> 0,
       snippet |-> "const token = new Token("],
      [label |-> "DeFi: Uniswap SDK - Pair", imports |-> Some(UNISWAP_IMPORTS), sortOrder |-> 1,
       snippet |-> "const pair = new Pair("],
      [label |-> "DeFi: Uniswap SDK - Route", imports |-> Some(UNISWAP_IMPORTS), sortOrder |-> 2,
       snippet |-> "const route = new Route("],
      [label |-> "DeFi: Uniswap SDK - Trade", imports |-> Some(UNISWAP_IMPORTS), sortOrder |-> 3,
       snippet |-> "const trade = new Trade("],
      [label |-> "DeFi: pTokens SDK", imports |-> Some(PTOKENS_IMPORTS), sortOrder |-> 4,
       snippet |-> "const ptokens = new pTokens({"],
      [label |-> "DeFi: pTokens SDK - web3", imports |-> Some(PTOKENS_IMPORTS), sortOrder |-> 5,
       snippet |-> "if (window.web3) {"],
      [label |-> "DeFi: pTokens SDK - pBTC deposit address", imports |-> Some(PTOKENS_IMPORTS),
       sortOrder |-> 6, snippet |-> "const depositAddress = await ptokens.pbtc.getDepositAddress("],
      [label |-> "DeFi: ERC20 Contract ABI", imports |-> None, sortOrder |-> 7,
       snippet |-> "const ERC_20_ABI = ["]>>

\* String(sortOrder) of a one-digit number
DigitString(n) == Ch("0123456789", n + 1)

\* insertSnippet that gives every snippet the sort text of the first
insertSnippetUnsorted(g, uri, position, snippetText, imports, label, sortOrder) ==
    [label |-> label, kind |-> "Snippet",
     textEdit |-> [range |-> [start |-> position, end |-> position], newText |-> snippetText],
     sortText |-> DigitString(0),
     additionalTextEdits |-> <<>>]

insertSnippet(g, uri, position, snippetText, imports, label, sortOrder) ==
    LET textDocumentContents == GetDocument(g, uri)
        addImports == /\ imports # None
                      /\ (textDocumentContents = None
                          \/ ~Includes(textDocumentContents[1], imports[1]))
    IN  [label |-> label, kind |-> "Snippet",
         textEdit |-> [range |-> [start |-> position, end |-> position], newText |-> snippetText],
         sortText |-> DigitString(sortOrder),
         additionalTextEdits |->
             IF addImports
             THEN <<[range |-> [start |-> [line |-> 0, character |-> 0],
                                end |-> [line |-> 0, character |-> 0]],
                     newText |-> imports[1]]>>
             ELSE <<>>]

RECURSIVE SetToSeq(_)
SetToSeq(set) ==
    IF set = {} THEN <<>>
    ELSE LET x == CHOOSE x \in set : TRUE IN <<x>> \o SetToSeq(set \ {x})

TokenCompletionItem(token, position) ==
    [label |-> "Token: " \o token.name \o " (" \o token.symbol \o ")", kind |-> "Value",
     data |-> token,
     textEdit |-> [range |-> [start |-> position, end |-> position],
                   newText |-> getChecksumAddress(token.address)]]

\* onCompletion after `await getTopTokens()`
CompletionItems(g, uri, position, tokens) ==
    LET addresses == SetToSeq(DOMAIN tokens)
    IN  [k \in 1..Len(addresses) |-> TokenCompletionItem(tokens[addresses[k]], position)]
        \o [k \in 1..Len(Snippets) |->
               insertSnippet(g, uri, position, Snippets[k].snippet, Snippets[k].imports,
                             Snippets[k].label, Snippets[k].sortOrder)]

onCompletion(g, uri, position) ==
    getTopTokens(g, <<[f |-> "onCompletion", at |-> "getTopTokens", uri |-> uri,
                       position |-> position, calls |-> {}]>>)

CompletionRet(g, stack, tokens) ==
    Finish(g, stack, CompletionItems(g, Top(stack).uri, Top(stack).position, tokens))

(***************************************************************************)
(* Code lenses.                                                            *)
(***************************************************************************)
CODE_LENS_TYPE_ETH_ADDRESS == "EthAddress"

CODE_LENS_TYPE_ETH_PRIVATE_KEY == "EthPrivateKey"

MAINNET == "mainnet"

ROPSTEN == "ropsten"

KOVAN == "kovan"

RINKEBY == "rinkeby"

GOERLI == "goerli"

NETWORKS == <<MAINNET, ROPSTEN, KOVAN, RINKEBY, GOERLI>>

\* pushEthereumAddressCodeLenses with one lens, for the first network
pushEthereumAddressCodeLensOnce(codeLensType, range, content, codeLenses) ==
    Append(codeLenses, [range |-> range, data |-> <<codeLensType, NETWORKS[1], content>>])

pushEthereumAddressCodeLenses(codeLensType, range, content, codeLenses) ==
    codeLenses \o [k \in 1..Len(NETWORKS) |->
                      [range |-> range, data |-> <<codeLensType, NETWORKS[k], content>>]]

RECURSIVE AddressCodeLenses(_, _, _)
\* possibleEthereumAddresses.forEach, from element i
AddressCodeLenses(elements, i, codeLenses) ==
    IF i > Len(elements) THEN codeLenses
    ELSE AddressCodeLenses(elements, i + 1,
             IF isValidEthereumAddress(elements[i].content)
             THEN pushEthereumAddressCodeLenses(CODE_LENS_TYPE_ETH_ADDRESS, elements[i].range,
                                                elements[i].content, codeLenses)
             ELSE codeLenses)

RECURSIVE PrivateKeyCodeLenses(_, _, _)
\* possiblePublicKeys.forEach, from element i
PrivateKeyCodeLenses(elements, i, codeLenses) ==
    IF i > Len(elements) THEN codeLenses
    ELSE PrivateKeyCodeLenses(elements, i + 1,
             IF isPrivateKey(elements[i].content)
             THEN pushEthereumAddressCodeLenses(CODE_LENS_TYPE_ETH_PRIVATE_KEY, elements[i].range,
                                                toPublicKey(elements[i].content), codeLenses)
             ELSE codeLenses)

\* the loop over possibleEnsNames, from element i to the next await
CodeLensNames(g, stack) ==
    LET fr == Top(stack)
    IN  IF fr.i > Len(fr.names) THEN Finish(g, stack, fr.codeLenses)
        ELSE ENSLookup(g, stack, fr.names[fr.i].content)

\* ENSLookup returned ensAddress
CodeLensRet(g, stack, ensAddress) ==
    LET fr == Top(stack)
        element == fr.names[fr.i]
    IN  CodeLensNames(g, SetTop(stack,
            [fr EXCEPT !.i = @ + 1,
                       !.codeLenses = IF ensAddress # ""
                                      THEN pushEthereumAddressCodeLenses(CODE_LENS_TYPE_ETH_ADDRESS,
                                               element.range, ensAddress, @)
                                      ELSE @]))

onCodeLens(g, uri) ==
    LET textDocument == GetDocument(g, uri)
        frame(text, addresses, keys, names, codeLenses) ==
            [f |-> "onCodeLens", at |-> "ENSLookup", uri |-> uri, text |-> text,
             addresses |-> addresses, keys |-> keys, names |-> names, i |-> 1,
             codeLenses |-> codeLenses, calls |-> {}]
    IN  IF textDocument = None THEN Finish(g, <<frame("", <<>>, <<>>, <<>>, <<>>)>>, <<>>)
        ELSE LET text == textDocument[1]
                 addresses == possibleEthereumAddresses[text]
                 keys == possiblePublicKeys[text]
                 codeLenses == PrivateKeyCodeLenses(keys, 1, AddressCodeLenses(addresses, 1, <<>>))
             IN  CodeLensNames(g, <<frame(text, addresses, keys, possibleEnsNames[text], codeLenses)>>)

\* Command.create(title, command, ...args)
CommandCreate(title, command, argument) ==
    [title |-> title, command |-> command, arguments |-> <<argument>>]

\* the branches of onCodeLensResolve for the networks other than mainnet
TestnetCommand(network, address) ==
    CommandCreate("(" \o network \o ")", "etherscan.show.url",
                  "https://" \o network \o ".etherscan.io/address/" \o address)

Resolved(codeLens, command) ==
    [range |-> codeLens.range, data |-> codeLens.data, command |-> command]

\* onCodeLensResolve that looks the address up on every network
onCodeLensResolveLookingUp(g, codeLens) ==
    reverseENSLookup(g, <<[f |-> "onCodeLensResolve", at |-> "reverseENSLookup",
                           codeLens |-> codeLens, ensName |-> "", calls |-> {}]>>,
                     codeLens.data[3])

onCodeLensResolve(g, codeLens) ==
    LET network == codeLens.data[2]
        address == codeLens.data[3]
        frame(at) == [f |-> "onCodeLensResolve", at |-> at, codeLens |-> codeLens,
                      ensName |-> "", calls |-> {}]
    IN  IF network = MAINNET
        THEN reverseENSLookup(g, <<frame("reverseENSLookup")>>, address)
        ELSE IF network \in {ROPSTEN, KOVAN, RINKEBY, GOERLI}
        THEN Finish(g, <<frame("return")>>, Resolved(codeLens, TestnetCommand(network, address)))
        ELSE Finish(g, <<frame("return")>>, codeLens)

\* the mainnet branch: reverseENSLookup returned, then getToken
CodeLensResolveRet(g, stack, v) ==
    LET fr == Top(stack)
        codeLensType == fr.codeLens.data[1]
        address == fr.codeLens.data[3]
    IN  CASE fr.at = "reverseENSLookup" ->
               getTopTokens(g, SetTop(stack, [fr EXCEPT !.at = "getTopTokens", !.ensName = v]))
          [] fr.at = "getTopTokens" ->
               LET token == getToken(v, address)
                   isToken == token # None
                   prefix == (IF fr.ensName # "" THEN fr.ensName \o " | " ELSE "")
                             \o (IF isToken THEN getTokenName(token[1]) \o " | " ELSE "")
                   kind == IF isToken THEN "token" ELSE "address"
                   url == "https://etherscan.io/address/" \o address
               IN  IF codeLensType = CODE_LENS_TYPE_ETH_ADDRESS
                   THEN Finish(g, stack,
                            Resolved(fr.codeLens,
                                CommandCreate(prefix \o "Ethereum " \o kind \o " (mainnet): "
                                              \o address, "etherscan.show.url", url)))
                   ELSE IF codeLensType = CODE_LENS_TYPE_ETH_PRIVATE_KEY
                   THEN Finish(g, stack,
                            Resolved(fr.codeLens,
                                CommandCreate(prefix \o "Private key for Ethereum " \o kind
                                              \o " (mainnet): " \o address,
                                              "etherscan.show.url", url)))
                   ELSE Finish(g, stack, fr.codeLens)

(***************************************************************************)
(* Dispatch: a callee's return value, or an external call's response, is   *)
(* handed to the code that awaits it.                                      *)
(***************************************************************************)
Ret(g, stack, v) ==
    LET f == Top(stack).f
    IN  CASE f = "validateTextDocument" -> ValidateRet(g, stack, v)
          [] f = "reverseENSLookup" -> ReverseRet(g, stack, v)
          [] f = "getMarkdownForRegularAddress" -> RegularAddressRet(g, stack, v)
          [] f = "getHoverMarkdownForAddress" -> HoverMarkdownRet(g, stack, v)
          [] f = "onHover" -> HoverRet(g, stack, v)
          [] f = "onCodeAction" -> CodeActionsRet(g, stack, v)
          [] f = "onCompletion" -> CompletionRet(g, stack, v)
          [] f = "onCodeLens" -> CodeLensRet(g, stack, v)
          [] f = "onCodeLensResolve" -> CodeLensResolveRet(g, stack, v)

ResumeWith(g, stack, resp) ==
    LET f == Top(stack).f
    IN  CASE f = "validateTextDocument" -> ValidateResume(g, stack, resp)
          [] f = "ENSLookup" -> ENSLookupResume(g, stack, resp)
          [] f = "reverseENSLookup" -> ReverseResume(g, stack, resp)
          [] f = "isContract" -> IsContractResume(g, stack, resp)
          [] f = "getTopTokens" -> TopTokensResume(g, stack, resp)
          [] f = "getMarkdownForToken" -> TokenMarketResume(g, stack, resp)
          [] f = "getMarkdownForRegularAddress" -> RegularAddressResume(g, stack, resp)
          [] f = "getContractAbi" -> ContractAbiResume(g, stack, resp)

(***************************************************************************)
(* The editor and the outside world: documents, settings, responses.       *)
(***************************************************************************)
SETTINGS_INFURA ==
    [maxNumberOfProblems |-> 1, infuraProjectId |-> "pid", infuraProjectSecret |-> "secret",
     amberdataApiKey |-> "", etherscanApiKey |-> "ekey", cacheDuration |-> Some(2),
     tokenListJsonUrl |-> DEFAULT_TOKEN_LIST_JSON_URL]

SETTINGS_AMBERDATA ==
    [maxNumberOfProblems |-> 2, infuraProjectId |-> "", infuraProjectSecret |-> "",
     amberdataApiKey |-> "akey", etherscanApiKey |-> "", cacheDuration |-> Some(1),
     tokenListJsonUrl |-> ""]

SETTINGS_NO_KEYS ==
    [maxNumberOfProblems |-> 0, infuraProjectId |-> "", infuraProjectSecret |-> "",
     amberdataApiKey |-> "", etherscanApiKey |-> "", cacheDuration |-> None,
     tokenListJsonUrl |-> DEFAULT_TOKEN_LIST_JSON_URL]

SettingsChoices == {defaultSettings, SETTINGS_INFURA, SETTINGS_AMBERDATA, SETTINGS_NO_KEYS}

TOKEN_LIST ==
    [tokens |-> <<[name |-> "Dai Stablecoin", symbol |-> "DAI",
                   address |-> ToLowerCase(DAI_ADDRESS), chainId |-> "1"],
                  [name |-> "Ropsten Dai", symbol |-> "rDAI",
                   address |-> ToLowerCase(VITALIK_ADDRESS), chainId |-> "3"]>>]

\* what the awaited external call of frame fr may answer
Responses(g, fr) ==
    CASE fr.at = "getDocumentSettings" -> {fr.settings}
      [] fr.at = "ens.reverse.name" -> {FAIL, ENS_NAME}
      [] fr.at = "ens.resolver.addr" -> {FAIL, ZERO_ADDRESS, VITALIK_ADDRESS, DAI_ADDRESS}
      [] fr.at = "eth.getCode" -> {FAIL, "0x", "0x6080"}
      [] fr.at = "eth.getBalance" -> {FAIL, "0", "1000000000000000000"}
      [] fr.at = "request.tokenList" ->
           IF g.tokenListUrlSetting = "" THEN {HttpError}
           ELSE {HttpError, HttpUnusable, HttpBody(TOKEN_LIST)}
      [] fr.at = "request.coingecko" -> {HttpError, HttpBody([price |-> Some("1")])}
      [] fr.at = "request.accountBalance" -> {HttpError, HttpBody([total |-> "2", quote |-> "2"])}
      [] fr.at = "request.tokens" -> {HttpError, HttpBody([amount |-> "1", symbol |-> "DAI"])}
      [] fr.at = "request.getabi" ->
           {HttpError, HttpUnusable,
            HttpBody([status |-> "0", result |-> Some("Contract source code not verified")]),
            HttpBody([status |-> "1", result |-> None]),
            HttpBody([status |-> "1", result |-> Some("[]")])}

\* the positions a hover is requested at: one character inside every address
\* and name candidate of the document
HoverPositions(text) ==
    IF text \in Texts
    THEN {[line |-> l.range.start.line, character |-> l.range.start.character + 1] :
            l \in {possibleEthereumAddresses[text][k] :
                      k \in 1..Len(possibleEthereumAddresses[text])}
                  \cup {possibleEnsNames[text][k] : k \in 1..Len(possibleEnsNames[text])}}
    ELSE {}

\* the diagnostics a code action request carries: one of those published
CodeActionContexts(g) ==
    IF MapHas(g.published, URI)
    THEN {<<g.published[URI][k]>> : k \in 1..Len(g.published[URI])}
    ELSE {}

(***************************************************************************)
(* The server as a state machine: one action per notification or request   *)
(* of the editor, one for the settling of an awaited external call, and    *)
(* one for the passing of time.                                            *)
(***************************************************************************)
\* the server after construction, before any handler has run
InitServer ==
    /\ hasConfigurationCapability \in BOOLEAN
    /\ globalSettings = defaultSettings
    /\ documentSettings = EmptyMap
    /\ documents = EmptyMap
    /\ clientSettings \in SettingsChoices
    /\ web3provider = UNDEFINED
    /\ ens = UNDEFINED
    /\ amberdataApiKeySetting = ""
    /\ etherscanApiKeySetting = ""
    /\ cacheDurationSetting = None
    /\ tokenListUrlSetting = ""
    /\ ensCache = EmptyMap
    /\ ensReverseCache = EmptyMap
    /\ tokenCache = EmptyMap
    /\ topTokensCache = EmptyMap
    /\ addressMarkdownCache = EmptyMap
    /\ abiCache = EmptyMap
    /\ ensWrittenAt = EmptyMap
    /\ published = EmptyMap
    /\ sent = NoMessage
    /\ log = <<>>
    /\ now = 0

Init == InitServer /\ tasks = [k \in 1..MaxTasks |-> <<>>]

Idle(k) == tasks[k] = <<>>

\* the handler started in slot k ran to its first await, or to its end
Started(k, res) ==
    /\ Install(res.g)
    /\ tasks' = [tasks EXCEPT ![k] = res.stack]

IsOpen(g, uri) == MapHas(g.documents, uri) /\ g.documents[uri].open

\* documents.onDidChangeContent: the document was opened or edited
DidChangeContent(text) ==
    \E k \in DOMAIN tasks :
        /\ Idle(k)
        /\ Started(k, validateTextDocument(
                          Logged([Server EXCEPT !.documents =
                                      MapSet(@, URI, [text |-> text, open |-> TRUE])],
                                 [op |-> "notification", method |-> "onDidChangeContent"]),
                          URI))

\* documents.onDidClose
DidClose ==
    /\ IsOpen(Server, URI)
    /\ Install([Server EXCEPT !.documents[URI].open = FALSE,
                              !.documentSettings = MapDelete(@, URI)])
    /\ UNCHANGED tasks

\* connection.onDidChangeConfiguration, up to the revalidation
onDidChangeConfiguration(g, settings) ==
    LET g1 == IF g.hasConfigurationCapability
              THEN [g EXCEPT !.documentSettings = EmptyMap]
              ELSE [g EXCEPT !.globalSettings = settings]
    IN  [g1 EXCEPT !.ensCache = EmptyMap,
                   !.ensReverseCache = EmptyMap,
                   !.tokenCache = EmptyMap,
                   !.topTokensCache = EmptyMap,
                   !.addressMarkdownCache = EmptyMap,
                   !.ensWrittenAt = EmptyMap]

\* the editor's settings become `settings`; every open document is revalidated
DidChangeConfiguration(settings) ==
    LET g == onDidChangeConfiguration(
                 Logged([Server EXCEPT !.clientSettings = settings],
                        [op |-> "notification", method |-> "onDidChangeConfiguration"]),
                 settings)
    IN  IF IsOpen(g, URI)
        THEN \E k \in DOMAIN tasks : Idle(k) /\ Started(k, validateTextDocument(g, URI))
        ELSE Install(g) /\ UNCHANGED tasks

Hover(position) ==
    \E k \in DOMAIN tasks : Idle(k) /\ Started(k, onHover(Server, URI, position))

CodeAction(diagnostics) ==
    \E k \in DOMAIN tasks : Idle(k) /\ Started(k, onCodeAction(Server, URI, diagnostics))

Completion(position) ==
    \E k \in DOMAIN tasks : Idle(k) /\ Started(k, onCompletion(Server, URI, position))

CodeLens ==
    \E k \in DOMAIN tasks : Idle(k) /\ Started(k, onCodeLens(Server, URI))

\* the code lenses of a text's address and private-key candidates
RECURSIVE SeqToSet(_)
SeqToSet(seq) == IF seq = <<>> THEN {} ELSE {Head(seq)} \cup SeqToSet(Tail(seq))

LensesOf(text) ==
    IF text \in ScannedTexts
    THEN SeqToSet(PrivateKeyCodeLenses(possiblePublicKeys[text], 1,
                      AddressCodeLenses(possibleEthereumAddresses[text], 1, <<>>)))
    ELSE {}

\* the editor resolves a code lens it was given
CodeLensResolve(codeLens) ==
    \E k \in DOMAIN tasks : Idle(k) /\ Started(k, onCodeLensResolve(Server, codeLens))

\* the external call that task k awaits settles with resp
ResumeTask(k, resp) ==
    /\ ~Idle(k)
    /\ Started(k, ResumeWith(Server, tasks[k], resp))

\* Date.now() advances
Tick ==
    /\ now < MaxTime
    /\ Install([Server EXCEPT !.now = @ + 1])
    /\ UNCHANGED tasks

TextOf(g) == IF MapHas(g.documents, URI) THEN g.documents[URI].text ELSE ""

\* the whole machine
Next ==
    \/ \E text \in TextsWithKeys : DidChangeContent(text)
    \/ DidClose
    \/ \E settings \in SettingsChoices : DidChangeConfiguration(settings)
    \/ \E position \in HoverPositions(TextOf(Server)) : Hover(position)
    \/ \E diagnostics \in CodeActionContexts(Server) : CodeAction(diagnostics)
    \/ Completion(PositionAt(TextOf(Server), 0))
    \/ CodeLens
    \/ \E codeLens \in LensesOf(TextOf(Server)) : CodeLensResolve(codeLens)
    \/ \E k \in {j \in DOMAIN tasks : ~Idle(j)} :
          \E resp \in Responses(Server, Top(tasks[k])) : ResumeTask(k, resp)
    \/ Tick

\* no function is applied apart from the handlers
NoOutput == [fn |-> "none", value |-> <<>>]

\* the outside world may answer a call in any way, and differently each time
AnyAnswers == <<>>

InitHandlers == Init /\ input = "" /\ output = NoOutput /\ external = AnyAnswers

Spec == InitHandlers /\ [][Next]_vars

(***************************************************************************)
(* Three environments the server is checked in.  In the first the editor   *)
(* opens, edits and closes the document and changes the settings; every    *)
(* request it makes is a validation pass.                                  *)
(***************************************************************************)
ResumeSomeTask ==
    \E k \in {j \in DOMAIN tasks : ~Idle(j)} :
        \E resp \in Responses(Server, Top(tasks[k])) : ResumeTask(k, resp)

NextValidation ==
    \/ \E text \in Texts : DidChangeContent(text)
    \/ DidClose
    \/ \E settings \in SettingsChoices : DidChangeConfiguration(settings)
    \/ ResumeSomeTask

SpecValidation == InitHandlers /\ [][NextValidation]_vars

(***************************************************************************)
(* In the other two the settings are SETTINGS_INFURA and the document is   *)
(* TEXT_NAME_TOKEN, and time passes.  In the second the editor asks for    *)
(* hovers over the addresses of the document and for code actions.         *)
(***************************************************************************)
InitRequests ==
    /\ InitHandlers
    /\ hasConfigurationCapability
    /\ clientSettings = SETTINGS_INFURA

AddressPositions(text) ==
    IF text \in Texts
    THEN {[line |-> possibleEthereumAddresses[text][k].range.start.line,
           character |-> possibleEthereumAddresses[text][k].range.start.character + 1] :
            k \in 1..Len(possibleEthereumAddresses[text])}
    ELSE {}

NextCaches ==
    \/ DidChangeContent(TEXT_NAME_TOKEN)
    \/ \E position \in AddressPositions(TextOf(Server)) : Hover(position)
    \/ \E diagnostics \in CodeActionContexts(Server) : CodeAction(diagnostics)
    \/ ResumeSomeTask
    \/ Tick

SpecCaches == InitRequests /\ [][NextCaches]_vars

(***************************************************************************)
(* In the third it asks for code actions and completions, and sends the    *)
(* settings again.                                                         *)
(***************************************************************************)
NextActions ==
    \/ DidChangeContent(TEXT_NAME_TOKEN)
    \/ DidChangeConfiguration(SETTINGS_INFURA)
    \/ \E diagnostics \in CodeActionContexts(Server) : CodeAction(diagnostics)
    \/ Completion(PositionAt(TextOf(Server), 0))
    \/ ResumeSomeTask
    \/ Tick

SpecActions == InitRequests /\ [][NextActions]_vars

(***************************************************************************)
(* The scanner by itself: a text is drawn, and one of the three scans is   *)
(* applied to it.  The texts put a candidate of each shape between what    *)
(* may come before and after it, and repeat a candidate up to              *)
(* MaxCandidates times.                                                    *)
(***************************************************************************)
HEX_40 == StripHexPrefix(LOWER_ADDRESS)

HEX_64 == CURVE_ORDER_HEX

ScanCores ==
    {"0x" \o HEX_40, "0x" \o HEX_40 \o "a", "0x" \o HEX_40 \o HEX_40,
     LOWER_ADDRESS \o "a " \o LOWER_ADDRESS, HEX_64 \o "f " \o HEX_64,
     HEX_64, HEX_64 \o "f", "0x" \o HEX_64, SubSeq(HEX_64, 1, 63),
     "'" \o ENS_NAME \o "'", "\"a.b.eth\"", "'v.et'", "'.eth'", "'v.eth"}

ScanPrefixes == {"", "x = ", "0", "'", "a\n"}

ScanSuffixes == {"", " ", "g", "_", ";\n", "'"}

\* n copies of unit, by halves
RECURSIVE RepeatText(_, _)
RepeatText(unit, n) ==
    IF n <= 0 THEN ""
    ELSE IF n = 1 THEN unit
    ELSE RepeatText(unit, n \div 2) \o RepeatText(unit, n - n \div 2)

RepeatedUnits == {LOWER_ADDRESS \o " ", HEX_64 \o " ", "'" \o ENS_NAME \o "' "}

ScanTexts ==
    {pre \o core \o post : pre \in ScanPrefixes, core \in ScanCores, post \in ScanSuffixes}
    \cup {RepeatText(unit, n) : unit \in RepeatedUnits, n \in {2, MaxCandidates - 1, MaxCandidates}}

InitScanner ==
    /\ Init
    /\ ~hasConfigurationCapability
    /\ clientSettings = defaultSettings
    /\ input \in ScanTexts
    /\ output = NoOutput
    /\ external = AnyAnswers

\* the function fn was applied to the input and gave value
Applied(fn, value) ==
    /\ output.fn = "none"
    /\ output' = [fn |-> fn, value |-> value]
    /\ UNCHANGED <<serverVars, input, external>>

ScanAddresses == Applied("findPossibleEthereumAddresses", findPossibleEthereumAddresses(input))

ScanPrivateKeys == Applied("findPossiblePrivateKeys", findPossiblePrivateKeys(input))

ScanENSNames == Applied("findPossibleENSNames", findPossibleENSNames(input))

NextScanner ==
    \/ ScanAddresses
    \/ ScanPrivateKeys
    \/ ScanENSNames

SpecScanner == InitScanner /\ [][NextScanner]_vars

(***************************************************************************)
(* The address check by itself: it is applied to the canonical forms, to   *)
(* their all-lower-case and all-upper-case forms, and to every string that *)
(* differs from a canonical form in the case of one letter.                *)
(***************************************************************************)
\* s with the case of its i-th character changed
FlipCaseAt(s, i) ==
    LET c == Ch(s, i)
        flipped == IF c \in DOMAIN UpperToLower THEN UpperToLower[c]
                   ELSE IF \E u \in DOMAIN UpperToLower : UpperToLower[u] = c
                        THEN CHOOSE u \in DOMAIN UpperToLower : UpperToLower[u] = c
                        ELSE c
    IN  SubSeq(s, 1, i - 1) \o flipped \o SubSeq(s, i + 1, Len(s))

\* the positions of the hex letters of an address, after its 0x
LetterPositions(address) == {i \in 3..Len(address) : Ch(address, i) \in LetterChars}

RECURSIVE ToUpperCaseBody(_)
ToUpperCaseBody(s) ==
    IF s = "" THEN ""
    ELSE IF Len(s) = 1 THEN (IF s \in DOMAIN UpperToLower THEN s ELSE FlipCaseAt(s, 1))
    ELSE ToUpperCaseBody(SubSeq(s, 1, Len(s) \div 2))
         \o ToUpperCaseBody(SubSeq(s, Len(s) \div 2 + 1, Len(s)))

AddressInputs ==
    UNION {{c, ToLowerCase(c), "0x" \o ToUpperCaseBody(StripHexPrefix(c))}
           \cup {FlipCaseAt(c, i) : i \in LetterPositions(c)} : c \in ChecksumForms}

InitClassifier ==
    /\ Init
    /\ ~hasConfigurationCapability
    /\ clientSettings = defaultSettings
    /\ input \in AddressInputs
    /\ output = NoOutput
    /\ external = AnyAnswers

CheckAddress == Applied("isValidEthereumAddress", isValidEthereumAddress(input))

NextClassifier == CheckAddress

SpecClassifier == InitClassifier /\ [][NextClassifier]_vars

(***************************************************************************)
(* Properties.                                                             *)
(***************************************************************************)
AllCachesEmpty ==
    /\ ensCache = EmptyMap
    /\ ensReverseCache = EmptyMap
    /\ tokenCache = EmptyMap
    /\ topTokensCache = EmptyMap
    /\ addressMarkdownCache = EmptyMap
    /\ abiCache = EmptyMap

\* C1: immediately after a configuration-change notification has been handled
\* every one of the six caches is empty
C1_CachesEmptyAfterConfigurationChange ==
    [][(\E settings \in SettingsChoices : DidChangeConfiguration(settings)) => AllCachesEmpty']_vars

\* a validation pass published its diagnostics in this step; sent.frame is the
\* frame of validateTextDocument at its end
ValidationEnded == sent.handler = "validateTextDocument"

\* C2: the number of diagnostics one validation pass publishes never exceeds
\* the maxNumberOfProblems of its settings
C2_DiagnosticsWithinMaxNumberOfProblems ==
    ValidationEnded => Len(sent.result) <= sent.frame.settings.maxNumberOfProblems

\* the address candidates a pass processed: each one takes one of the
\* maxNumberOfProblems, so they are the first ones of the scan
ProcessedAddresses(fr) == 1..Min(Len(fr.addresses), fr.settings.maxNumberOfProblems)

\* the diagnostics of a pass that lie on one candidate, in the order they were added
RECURSIVE DiagnosticsOn(_, _)
DiagnosticsOn(diagnostics, element) ==
    IF diagnostics = <<>> THEN <<>>
    ELSE (IF Head(diagnostics).range = element.range THEN <<Head(diagnostics)>> ELSE <<>>)
         \o DiagnosticsOn(Tail(diagnostics), element)

IsInvalidAddressError(d) == d.severity = "Error" /\ d.code = DIAGNOSTIC_TYPE_NOT_VALID_ADDRESS

IsNotChecksumWarning(d) ==
    d.severity = "Warning" /\ StartsWith(d.code, DIAGNOSTIC_TYPE_NOT_CHECKSUM_ADDRESS)

IsENSNameHint(d) == d.severity = "Hint" /\ StartsWith(d.code, DIAGNOSTIC_TYPE_CONVERT_TO_ENS_NAME)

IsContractHint(d) == d.severity = "Hint" /\ StartsWith(d.code, DIAGNOSTIC_TYPE_GENERATE_ABI)

\* C3 as claimed: every processed address candidate yields exactly one
\* diagnostic, of one of the four kinds
C3_ExactlyOneDiagnosticPerAddress ==
    ValidationEnded =>
        \A i \in ProcessedAddresses(sent.frame) :
            LET ds == DiagnosticsOn(sent.result, sent.frame.addresses[i])
            IN  /\ Len(ds) = 1
                /\ \/ IsInvalidAddressError(ds[1])
                   \/ IsNotChecksumWarning(ds[1])
                   \/ IsENSNameHint(ds[1])
                   \/ IsContractHint(ds[1])

\* the kinds of the diagnostics ds, where the kinds are told apart
KindsOf(ds) ==
    [k \in 1..Len(ds) |->
        CASE IsInvalidAddressError(ds[k]) -> "error"
          [] IsNotChecksumWarning(ds[k]) -> "warning"
          [] IsENSNameHint(ds[k]) -> "ens"
          [] IsContractHint(ds[k]) -> "contract"
          [] OTHER -> "other"]

\* the sequences of kinds a valid address may get: the warning, the ENS hint
\* and the contract hint, each at most once and in this order
ValidAddressKinds(warned) ==
    {(IF warned THEN <<"warning">> ELSE <<>>) \o e \o c :
        e \in {<<>>, <<"ens">>}, c \in {<<>>, <<"contract">>}}

\* C3: a processed address candidate that is no valid address yields exactly
\* one diagnostic, the invalid-address error; a valid one yields no error, the
\* not-checksummed warning exactly when it is not in checksum form, and at
\* most one ENS hint and one contract hint: from none to three diagnostics
C3_DiagnosticsPerAddress ==
    ValidationEnded =>
        \A i \in ProcessedAddresses(sent.frame) :
            LET content == sent.frame.addresses[i].content
                kinds == KindsOf(DiagnosticsOn(sent.result, sent.frame.addresses[i]))
            IN  IF ~isAddress(content) THEN kinds = <<"error">>
                ELSE kinds \in ValidAddressKinds(content # toChecksumAddress(content))

\* a pass ended in which one processed address got three diagnostics and
\* another the invalid-address error
C3_Witness ==
    /\ ValidationEnded
    /\ \E i, j \in ProcessedAddresses(sent.frame) :
          /\ Len(DiagnosticsOn(sent.result, sent.frame.addresses[i])) = 3
          /\ KindsOf(DiagnosticsOn(sent.result, sent.frame.addresses[j])) = <<"error">>

\* what the step logged about the return of fn
Returns(l, fn) == {i \in 1..Len(l) : l[i].op = "return" /\ l[i].fn = fn}

\* what the step logged about a write to, or a hit in, a cache
Writes(l, cache) == {i \in 1..Len(l) : l[i].op = "set" /\ l[i].cache = cache}

Hits(l, cache) == {i \in 1..Len(l) : l[i].op = "hit" /\ l[i].cache = cache}

Misses(l, cache) == {i \in 1..Len(l) : l[i].op = "miss" /\ l[i].cache = cache}

Calls(l) == {i \in 1..Len(l) : l[i].op = "call"}

\* two addresses that agree up to the case of their hex digits
SameAddress(a, b) ==
    /\ IsAddressShape(a)
    /\ IsAddressShape(b)
    /\ ToLowerCase(StripHexPrefix(a)) = ToLowerCase(StripHexPrefix(b))

\* C4: reverseENSLookup returns a name, and writes address->name into the
\* reverse cache, only if the forward lookup of the name gave the original
\* address up to checksum normalization; when the forward lookup failed or
\* gave another address it returns "" and leaves the reverse cache as it was
C4_ReverseLookupRoundTrip ==
    [][\A i \in Returns(log', "reverseENSLookup") :
          LET e == log'[i]
          IN  /\ e.result # "" => (e.result = e.response /\ SameAddress(e.forward, e.arg))
              /\ \A w \in Writes(log', "ensReverseCache") :
                    /\ SameAddress(e.forward, e.arg)
                    /\ log'[w].key = e.arg
                    /\ log'[w].value = e.response
              /\ ~SameAddress(e.forward, e.arg) =>
                    (e.result = "" /\ ensReverseCache' = ensReverseCache)]_vars

\* a reverse lookup returned a name and cached it, the forward lookup having
\* given the address in another case than the one looked up
C4_Witness ==
    \E i \in Returns(log, "reverseENSLookup") :
        /\ log[i].result # ""
        /\ log[i].forward # log[i].arg
        /\ MapHas(ensReverseCache, log[i].arg)
        /\ ensReverseCache[log[i].arg] = log[i].result

NegativeResults == {"", ZERO_ADDRESS, FAIL}

\* C5: the name->address cache never holds a negative result; ENSLookup
\* writes it only when the resolver gave a non-zero address, and a lookup that
\* failed or gave the zero address returns "" and leaves the cache as it was;
\* a lookup is served from the cache only when the name is in it, and calls
\* the resolver only when it is not
C5_NoNegativeCaching ==
    [][/\ \A name \in DOMAIN ensCache' : ensCache'[name] \notin NegativeResults
       /\ \A i \in Returns(log', "ENSLookup") :
             LET e == log'[i]
             IN  IF e.response \in NegativeResults
                 THEN /\ e.result = ""
                      /\ ensCache' = ensCache
                      /\ Writes(log', "ensCache") = {}
                 ELSE /\ e.result = e.response
                      /\ ensCache'[e.arg] = e.response
       /\ \A i \in Hits(log', "ensCache") : MapHas(ensCache, log'[i].key)
       /\ \A i \in Calls(log') :
             log'[i].api = "ens.resolver.addr" => ~MapHas(ensCache, log'[i].arg)]_vars

\* the resolver gave the zero address for a name: the lookup returned "" and
\* the name is not in the cache
C5_Witness ==
    \E i \in Returns(log, "ENSLookup") :
        /\ log[i].response = ZERO_ADDRESS
        /\ log[i].result = ""
        /\ ~MapHas(ensCache, log[i].arg)

ChainApis == {"ens.reverse.name", "ens.resolver.addr", "eth.getCode", "eth.getBalance"}

\* the settings name neither an Infura project nor an Amberdata key
NoChainCredentials(settings) == settings.infuraProjectId = "" /\ settings.amberdataApiKey = ""

IsENSAddressHint(d) ==
    d.severity = "Hint" /\ StartsWith(d.code, DIAGNOSTIC_TYPE_CONVERT_FROM_ENS_NAME)

\* C10: a validation pass whose settings hold no chain-provider credentials
\* makes no chain or ENS call and publishes no contract or ENS hint
C10_NoCredentialsNoChainCalls ==
    (ValidationEnded /\ NoChainCredentials(sent.frame.settings)) =>
        /\ sent.frame.calls \cap ChainApis = {}
        /\ \A k \in 1..Len(sent.result) :
              /\ ~IsENSNameHint(sent.result[k])
              /\ ~IsENSAddressHint(sent.result[k])
              /\ ~IsContractHint(sent.result[k])

TimestampedCache(cache) ==
    CASE cache = "addressMarkdownCache" -> addressMarkdownCache
      [] cache = "abiCache" -> abiCache
      [] OTHER -> EmptyMap

\* the external calls the step issued after its i-th event
CallsAfter(l, i) == {j \in Calls(l) : j > i}

\* C6: once the TTL is set, an entry of the markdown or the ABI cache that
\* was written at T is returned, with no external call, by every read at a
\* time t with t - T < ttl; a read at a time t with t - T >= ttl, T + ttl
\* among them, fetches anew
C6_TimestampedCachesObeyTTL ==
    \A i \in {j \in 1..Len(log) : cacheDurationSetting # None} :
        LET e == log[i]
            cache == TimestampedCache(e.cache)
        IN  /\ (e.op = "hit" /\ e.cache \in {"addressMarkdownCache", "abiCache"}) =>
                  /\ now - e.value[1] < cacheDurationSetting[1]
                  /\ CallsAfter(log, i) = {}
            /\ (e.op = "miss" /\ e.cache \in {"addressMarkdownCache", "abiCache"}
                /\ MapHas(cache, e.key)) =>
                  /\ now - cache[e.key][1] >= cacheDurationSetting[1]
                  /\ CallsAfter(log, i) # {}

\* a read finds an entry that was written exactly ttl ago, and fetches anew
C6_Witness ==
    \E i \in 1..Len(log) :
        /\ cacheDurationSetting # None
        /\ log[i].op = "miss"
        /\ log[i].cache \in {"addressMarkdownCache", "abiCache"}
        /\ MapHas(TimestampedCache(log[i].cache), log[i].key)
        /\ now - TimestampedCache(log[i].cache)[log[i].key][1] = cacheDurationSetting[1]

\* C7: the name->address and the address->name cache obey the same TTL: an
\* entry written at T is not served by a read at a time t >= T + ttl
C7_ENSCachesObeyTTL ==
    \A i \in Hits(log, "ensCache") \cup Hits(log, "ensReverseCache") :
        now - ensWrittenAt[log[i].key] < cacheDurationSetting[1]

\* C8: when the token-list download fails while the snapshot is not empty,
\* getTopTokens keeps the snapshot and returns it
C8_FailedDownloadKeepsSnapshot ==
    [][\A i \in Returns(log', "getTopTokens") :
          (log'[i].response.error /\ topTokensCache # EmptyMap) =>
              /\ topTokensCache' = topTokensCache
              /\ log'[i].result = topTokensCache]_vars

\* C9: no handler ends with an exception that reaches the editor
C9_NoExceptionReachesEditor == sent.outcome # "exception"

\* C11: each of the three scans returns at most 100 locations, whatever the
\* text
C11_ScansReturnAtMostHundred ==
    output.fn \in {"findPossibleEthereumAddresses", "findPossiblePrivateKeys",
                   "findPossibleENSNames"} => Len(output.value) <= 100

\* the 1-based index in the input of the first character of a location
StartIndex(location) == OffsetAt(input, location.range.start) + 1

\* the n characters of text from p on exist and are hex digits
HexRunAt(text, p, n) == p >= 1 /\ p + n - 1 <= Len(text) /\ AllIn(SubSeq(text, p, p + n - 1), HexChars)

\* the characters of text from p on are those of word
WordAt(text, p, word) ==
    p >= 1 /\ p + Len(word) - 1 <= Len(text) /\ SubSeq(text, p, p + Len(word) - 1) = word

\* the character of text at p exists and is in set
CharIn(text, p, set) == p >= 1 /\ p <= Len(text) /\ Ch(text, p) \in set

C13_PrivateKeyScanExactRun ==
    output.fn = "findPossiblePrivateKeys" =>
        \A k \in 1..Len(output.value) :
            LET p == StartIndex(output.value[k])
            IN  /\ HexRunAt(input, p, 64)
                /\ output.value[k].content = "0x" \o SubSeq(input, p, p + 63)
                /\ ~CharIn(input, p + 64, WordChars)
                /\ ~CharIn(input, p - 1, HexChars)

\* a and c are of the same length and differ in one character, by its case
SingleCaseFlip(a, c) ==
    /\ Len(a) = Len(c)
    /\ Cardinality({i \in 1..Len(c) : Ch(a, i) # Ch(c, i)}) = 1
    /\ ToLowerCase(a) = ToLowerCase(c)

\* all letters of the address after its 0x are lower-case, or all are upper-case
SingleCase(address) ==
    \/ \A i \in LetterPositions(address) : Ch(address, i) \notin DOMAIN UpperToLower
    \/ \A i \in LetterPositions(address) : Ch(address, i) \in DOMAIN UpperToLower

\* C14 as claimed: the check accepts the canonical checksum form of every
\* address and rejects every string that differs from the canonical form in
\* the case of exactly one letter
C14_RejectsEverySingleCaseFlip ==
    output.fn = "isValidEthereumAddress" =>
        /\ input = toChecksumAddress(input) => output.value
        /\ SingleCaseFlip(input, toChecksumAddress(input)) => ~output.value

\* C14: the check accepts the canonical checksum form of every address; a
\* string that differs from the canonical form in the case of exactly one
\* letter is rejected unless all its letters are lower-case or all are
\* upper-case, and then it is accepted
C14_SingleCaseFlips ==
    output.fn = "isValidEthereumAddress" =>
        /\ input = toChecksumAddress(input) => output.value
        /\ SingleCaseFlip(input, toChecksumAddress(input)) =>
              (output.value <=> SingleCase(input))

\* the check rejected a string of both cases that differs from the canonical
\* form in the case of one letter
C14_Witness ==
    /\ output.fn = "isValidEthereumAddress"
    /\ SingleCaseFlip(input, toChecksumAddress(input))
    /\ ~SingleCase(input)
    /\ ~output.value

(***************************************************************************)
(* The validation environment, in which the editor also asks for the code  *)
(* actions of a not-checksummed warning published for the open document.   *)
(***************************************************************************)
WarningContexts == {c \in CodeActionContexts(Server) : IsNotChecksumWarning(c[1])}

NextQuickFix ==
    \/ NextValidation
    \/ \E diagnostics \in WarningContexts : IsOpen(Server, URI) /\ CodeAction(diagnostics)

SpecQuickFix == InitHandlers /\ [][NextQuickFix]_vars

\* a 0x and 40 hex characters, none of them an upper-case letter
IsLowercaseAddress(s) ==
    /\ Len(s) = 42
    /\ StartsWith(s, "0x")
    /\ AllIn(StripHexPrefix(s), DigitChars \cup LowerHexLetters)

CodeActionEnded == sent.handler = "onCodeAction"

\* the quick fix that replaces range by newText is among actions
HasReplacement(actions, range, newText) ==
    \E k \in 1..Len(actions) :
        /\ actions[k].kind = "quickfix"
        /\ actions[k].edit.range = range
        /\ actions[k].edit.newText = newText

\* the code actions returned for a not-checksummed warning on a lower-case
\* address of the document hold the replacement of its range by the
\* checksum form of the address
QuickFixReplacesByChecksum ==
    CodeActionEnded =>
        \A k \in 1..Len(sent.frame.diagnostics) :
            LET d == sent.frame.diagnostics[k]
                word == GetTextRange(TextOf(Server), d.range.start, d.range.end)
            IN  (IsNotChecksumWarning(d) /\ IsLowercaseAddress(word)) =>
                    HasReplacement(sent.result, d.range, toChecksumAddress(word))

\* the pass published a not-checksummed warning on the range of element
WarnedOn(element) ==
    \E k \in 1..Len(sent.result) :
        /\ IsNotChecksumWarning(sent.result[k])
        /\ sent.result[k].range = element.range

\* C15 as claimed: validation publishes a not-checksummed warning on every
\* lower-case address candidate of the document, and the code action for
\* the warning replaces the range by the checksum form of the candidate
C15_LowercaseAddressWarnedAndFixed ==
    /\ ValidationEnded =>
          \A i \in 1..Len(sent.frame.addresses) :
              IsLowercaseAddress(sent.frame.addresses[i].content) =>
                  WarnedOn(sent.frame.addresses[i])
    /\ QuickFixReplacesByChecksum

\* C15: validation publishes a not-checksummed warning on every lower-case
\* address candidate that the pass processes and that is not its own
\* checksum form, and the code action for the warning replaces the range by
\* the checksum form of the candidate
C15_ProcessedLowercaseAddressWarnedAndFixed ==
    /\ ValidationEnded =>
          \A i \in ProcessedAddresses(sent.frame) :
              LET content == sent.frame.addresses[i].content
              IN  (IsLowercaseAddress(content) /\ content # toChecksumAddress(content)) =>
                      WarnedOn(sent.frame.addresses[i])
    /\ QuickFixReplacesByChecksum

\* the code action for the warning on the lower-case address of the
\* document returned the replacement by its checksum form
C15_Witness ==
    /\ CodeActionEnded
    /\ \E k \in 1..Len(sent.frame.diagnostics) :
          LET d == sent.frame.diagnostics[k]
          IN  /\ IsNotChecksumWarning(d)
              /\ GetTextRange(TextOf(Server), d.range.start, d.range.end) = LOWER_ADDRESS
              /\ HasReplacement(sent.result, d.range, VITALIK_ADDRESS)

\* the frame of the handler that a stack of frames belongs to
HandlerFrame(stack) == stack[Len(stack)]

\* task k took the step, and it is a validation pass before and after it
ValidationStepped(k) ==
    /\ tasks[k] # <<>>
    /\ tasks'[k] # tasks[k]
    /\ HandlerFrame(tasks[k]).f = "validateTextDocument"

\* the names the step's reverse lookups of address gave, looked up or cached
NamesResolved(l, address) ==
    {l[i].result : i \in {j \in Returns(l, "reverseENSLookup") :
                              l[j].arg = address /\ l[j].result # ""}}
    \cup {l[i].value : i \in {j \in Hits(l, "ensReverseCache") : l[j].key = address}}

IsPrefix(s, t) == Len(s) <= Len(t) /\ SubSeq(t, 1, Len(s)) = s

\* C16: when the reverse lookup of a candidate in checksum form gives a name
\* to the pass, the diagnostics of the pass on the candidate are then the
\* one ENS hint that carries the name; the pass keeps every diagnostic it
\* has added; and the diagnostics it publishes hold, for a processed
\* candidate in checksum form, no not-checksummed warning and at most one
\* ENS hint
C16_ChecksummedAddressGetsOneENSHint ==
    [][/\ \A k \in DOMAIN tasks :
             (ValidationStepped(k) /\ tasks'[k] # <<>>
              /\ HandlerFrame(tasks'[k]).at = "isContract") =>
                 LET fr == HandlerFrame(tasks'[k])
                     element == fr.addresses[fr.i]
                     names == NamesResolved(log', element.content)
                     ds == DiagnosticsOn(fr.diagnostics, element)
                 IN  (element.content = toChecksumAddress(element.content) /\ names # {}) =>
                         /\ Len(ds) = 1
                         /\ IsENSNameHint(ds[1])
                         /\ names = {Substring(ds[1].code, Len(DIAGNOSTIC_TYPE_CONVERT_TO_ENS_NAME),
                                               Len(ds[1].code))}
       /\ \A k \in DOMAIN tasks :
             ValidationStepped(k) =>
                 IsPrefix(HandlerFrame(tasks[k]).diagnostics,
                          IF tasks'[k] = <<>> THEN sent'.result
                          ELSE HandlerFrame(tasks'[k]).diagnostics)
       /\ (sent'.handler = "validateTextDocument") =>
             \A i \in ProcessedAddresses(sent'.frame) :
                 LET element == sent'.frame.addresses[i]
                     kinds == KindsOf(DiagnosticsOn(sent'.result, element))
                 IN  element.content = toChecksumAddress(element.content) =>
                         /\ \A j \in 1..Len(kinds) : kinds[j] # "warning"
                         /\ Cardinality({j \in 1..Len(kinds) : kinds[j] = "ens"}) <= 1]_vars

\* a pass published, for the address of the document in checksum form, the
\* ENS hint that carries its name and no warning
C16_Witness ==
    /\ ValidationEnded
    /\ \E i \in ProcessedAddresses(sent.frame) :
          LET element == sent.frame.addresses[i]
              ds == DiagnosticsOn(sent.result, element)
          IN  /\ element.content = DAI_ADDRESS
              /\ \E j \in 1..Len(ds) :
                    /\ IsENSNameHint(ds[j])
                    /\ ds[j].code = DIAGNOSTIC_TYPE_CONVERT_TO_ENS_NAME \o ENS_NAME
              /\ \A j \in 1..Len(ds) : ~IsNotChecksumWarning(ds[j])

(***************************************************************************)
(* The environment of the code lenses: the editor opens, edits and closes  *)
(* the document, with keys or without, and asks for its code lenses; the   *)
(* settings name an ENS provider (SETTINGS_INFURA) or none.                *)
(***************************************************************************)
InitCodeLens ==
    /\ InitHandlers
    /\ hasConfigurationCapability
    /\ clientSettings \in {SETTINGS_INFURA, SETTINGS_AMBERDATA}

NextCodeLens ==
    \/ \E text \in TextsWithKeys : DidChangeContent(text)
    \/ DidClose
    \/ CodeLens
    \/ ResumeSomeTask

SpecCodeLens == InitCodeLens /\ [][NextCodeLens]_vars

CodeLensEnded == sent.handler = "onCodeLens"

\* the entries of a handler's result that lie on range, in their order
RECURSIVE EntriesOn(_, _)
EntriesOn(entries, range) ==
    IF entries = <<>> THEN <<>>
    ELSE (IF Head(entries).range = range THEN <<Head(entries)>> ELSE <<>>)
         \o EntriesOn(Tail(entries), range)

\* a candidate of the private-key scan is no key of the curve when its
\* scalar is zero or not below the order of the curve
DecodingFails(content) ==
    LET digits == SubSeq(content, 3, Len(content))
    IN  AllIn(digits, {"0"}) \/ ~HexLess(digits, CURVE_ORDER_HEX)

\* the private-key candidates of the document whose decoding fails
FailingKeys(text) ==
    LET keys == findPossiblePrivateKeys(text)
    IN  {element \in {keys[i] : i \in 1..Len(keys)} : DecodingFails(element.content)}

\* C17: a private-key candidate that does not decode makes neither handler
\* fail, and neither the code lenses returned for the document nor the
\* diagnostics of a validation pass hold an entry on the candidate's range
C17_UndecodableKeyYieldsNothing ==
    (CodeLensEnded \/ ValidationEnded) =>
        \A element \in FailingKeys(IF CodeLensEnded THEN sent.frame.text ELSE TextOf(Server)) :
            /\ ~isPrivateKey(element.content)
            /\ sent.outcome = "ok"
            /\ EntriesOn(sent.result, element.range) = <<>>

\* code lenses were returned for a document with a candidate that does not
\* decode, and they are lenses of other candidates
C17_Witness ==
    /\ CodeLensEnded
    /\ sent.result # <<>>
    /\ \E i \in 1..Len(sent.frame.keys) :
          /\ sent.frame.keys[i].content = "0x" \o CURVE_ORDER_HEX
          /\ DecodingFails(sent.frame.keys[i].content)

\* the five lenses of one candidate
FiveLenses(type, range, content) ==
    <<[range |-> range, data |-> <<type, "mainnet", content>>],
      [range |-> range, data |-> <<type, "ropsten", content>>],
      [range |-> range, data |-> <<type, "kovan", content>>],
      [range |-> range, data |-> <<type, "rinkeby", content>>],
      [range |-> range, data |-> <<type, "goerli", content>>]>>

\* C18: the code lenses returned for a document hold, on the range of every
\* valid address candidate, the five lenses of the five networks with the
\* address, on the range of every private-key candidate that decodes, the
\* five lenses with the address derived from the key, and no lens on the
\* range of a candidate that is not valid
C18_FiveLensesPerValidCandidate ==
    CodeLensEnded =>
        /\ \A i \in 1..Len(sent.frame.addresses) :
              LET element == sent.frame.addresses[i]
              IN  EntriesOn(sent.result, element.range) =
                      IF isValidEthereumAddress(element.content)
                      THEN FiveLenses(CODE_LENS_TYPE_ETH_ADDRESS, element.range, element.content)
                      ELSE <<>>
        /\ \A i \in 1..Len(sent.frame.keys) :
              LET element == sent.frame.keys[i]
              IN  EntriesOn(sent.result, element.range) =
                      IF isPrivateKey(element.content)
                      THEN FiveLenses(CODE_LENS_TYPE_ETH_PRIVATE_KEY, element.range,
                                      toPublicKey(element.content))
                      ELSE <<>>
        /\ sent.frame.addresses = findPossibleEthereumAddresses(sent.frame.text)
        /\ sent.frame.keys = findPossiblePrivateKeys(sent.frame.text)

\* code lenses were returned for a document with the key one and a valid
\* address: five lenses on each, those of the key with KEY_ONE_ADDRESS
C18_Witness ==
    /\ CodeLensEnded
    /\ \E i \in 1..Len(sent.frame.keys) :
          /\ sent.frame.keys[i].content = PRIVATE_KEY_ONE
          /\ EntriesOn(sent.result, sent.frame.keys[i].range) =
                 FiveLenses(CODE_LENS_TYPE_ETH_PRIVATE_KEY, sent.frame.keys[i].range, KEY_ONE_ADDRESS)
    /\ \E i \in 1..Len(sent.frame.addresses) :
          /\ sent.frame.addresses[i].content = LOWER_ADDRESS
          /\ Len(EntriesOn(sent.result, sent.frame.addresses[i].range)) = Len(NETWORKS)

CompletionEnded == sent.handler = "onCompletion" /\ sent.outcome = "ok"

\* the items of a completion response of one kind, in their order
RECURSIVE ItemsOfKind(_, _)
ItemsOfKind(items, kind) ==
    IF items = <<>> THEN <<>>
    ELSE (IF Head(items).kind = kind THEN <<Head(items)>> ELSE <<>>)
         \o ItemsOfKind(Tail(items), kind)

\* C19: a completion response holds, for every entry of the top-token map,
\* exactly one item, which inserts the checksum form of the token's address,
\* and besides these the eight snippets, in the order of their declaration,
\* with the sort texts 0 to 7
C19_CompletionItems ==
    CompletionEnded =>
        LET tokenItems == ItemsOfKind(sent.result, "Value")
            snippetItems == ItemsOfKind(sent.result, "Snippet")
        IN  /\ Len(sent.result) = Len(tokenItems) + Len(snippetItems)
            /\ Len(tokenItems) = Cardinality(DOMAIN topTokensCache)
            /\ \A address \in DOMAIN topTokensCache :
                  \E k \in 1..Len(tokenItems) :
                      /\ tokenItems[k].data = topTokensCache[address]
                      /\ tokenItems[k].textEdit.newText \in ChecksumForms
                      /\ ToLowerCase(tokenItems[k].textEdit.newText) = ToLowerCase(address)
                      /\ \A j \in 1..Len(tokenItems) :
                            tokenItems[j].data = topTokensCache[address] => j = k
            /\ [k \in 1..Len(snippetItems) |-> snippetItems[k].sortText]
                   = <<"0", "1", "2", "3", "4", "5", "6", "7">>
            /\ [k \in 1..Len(snippetItems) |-> snippetItems[k].label]
                   = [k \in 1..Len(Snippets) |-> Snippets[k].label]

\* a completion response with the item of the DAI token, which inserts
\* DAI_ADDRESS, and the snippets
C19_Witness ==
    /\ CompletionEnded
    /\ \E k \in 1..Len(sent.result) :
          /\ sent.result[k].kind = "Value"
          /\ sent.result[k].textEdit.newText = DAI_ADDRESS
    /\ \E k \in 1..Len(sent.result) : sent.result[k].kind = "Snippet"

(***************************************************************************)
(* The environment of a repeated validation: the settings, the text of the *)
(* document and the state of the outside world (the ENS records, the code  *)
(* deployed at the addresses) are drawn at the start and stay; the editor  *)
(* opens the document, sends its text again, and time passes, so that a    *)
(* later pass finds the caches filled, or finds them stale.                *)
(***************************************************************************)
ExternalStates ==
    {[api \in {"ens.reverse.name", "ens.resolver.addr", "eth.getCode"} |->
         CASE api = "ens.reverse.name" -> name
           [] api = "ens.resolver.addr" -> addr
           [] api = "eth.getCode" -> code] :
       name \in {FAIL, ENS_NAME},
       addr \in {FAIL, ZERO_ADDRESS, VITALIK_ADDRESS, DAI_ADDRESS},
       code \in {FAIL, "0x", "0x6080"}}

InitRepeated ==
    /\ Init
    /\ input \in Texts
    /\ output = NoOutput
    /\ external \in ExternalStates

\* what the awaited call of frame fr answers in the state of the outside world
ExternalResponses(g, fr) ==
    IF fr.at \in DOMAIN external THEN Responses(g, fr) \cap {external[fr.at]}
    ELSE Responses(g, fr)

ResumeInExternalState ==
    \E k \in {j \in DOMAIN tasks : ~Idle(j)} :
        \E resp \in ExternalResponses(Server, Top(tasks[k])) : ResumeTask(k, resp)

NextRepeated ==
    \/ DidChangeContent(input)
    \/ ResumeInExternalState
    \/ Tick

SpecRepeated == InitRepeated /\ [][NextRepeated]_vars

\* C20: a validation pass over the text that an earlier pass, with the same
\* settings and in the same state of the outside world, published
\* diagnostics for publishes the same list of diagnostics
C20_RepeatedPassPublishesTheSame ==
    [][(sent'.handler = "validateTextDocument" /\ MapHas(published, sent'.frame.uri)) =>
           /\ sent'.outcome = "ok"
           /\ sent'.result = published[sent'.frame.uri]
           /\ published'[sent'.frame.uri] = sent'.result]_vars

\* a pass ended that made no reverse resolution and published an ENS hint:
\* the cache that an earlier pass filled served it the name
C20_Witness ==
    /\ ValidationEnded
    /\ \E k \in 1..Len(sent.result) : IsENSNameHint(sent.result[k])
    /\ "ens.reverse.name" \notin sent.frame.calls
    /\ now > 0

\* C21: when getContractAbi returns after its request, it has written the
\* ABI cache and returns the ABI if the answer has status "1" and a result;
\* after a request error, an answer that cannot be read or any other
\* answer it has left the ABI cache as it was and returns no ABI
C21_AbiCachedOnlyOnSuccess ==
    [][\A i \in Returns(log', "getContractAbi") :
          LET e == log'[i]
              success == /\ ~e.response.error
                         /\ e.response.body # None
                         /\ e.response.body[1].status = "1"
                         /\ e.response.body[1].result # None
          IN  IF success
              THEN /\ e.result = e.response.body[1].result
                   /\ MapHas(abiCache', e.arg)
                   /\ abiCache'[e.arg] = <<now, e.response.body[1].result[1]>>
              ELSE /\ e.result = None
                   /\ abiCache' = abiCache]_vars

\* getContractAbi returned no ABI for an answer with status "0"
C21_Witness ==
    \E i \in Returns(log, "getContractAbi") :
        /\ ~log[i].response.error
        /\ log[i].response.body # None
        /\ log[i].response.body[1].status = "0"
        /\ log[i].result = None

(***************************************************************************)
(* The environment of interleaved handlers: one handler more than MaxTasks *)
(* may be in progress, so that the editor's next edit starts a validation  *)
(* pass while the pass of the edit before awaits an answer.  The settings  *)
(* are SETTINGS_INFURA and do not change, and no time passes.              *)
(***************************************************************************)
InitInterleaved ==
    /\ InitServer
    /\ hasConfigurationCapability
    /\ clientSettings = SETTINGS_INFURA
    /\ tasks = [k \in 1..(MaxTasks + 1) |-> <<>>]
    /\ input = ""
    /\ output = NoOutput
    /\ external = AnyAnswers

NextInterleaved ==
    \/ DidChangeContent(TEXT_NAME_TOKEN)
    \/ ResumeSomeTask

SpecInterleaved == InitInterleaved /\ [][NextInterleaved]_vars

\* the frame awaits the answer to a fetch whose result a cache keeps by key
IsCachedFetch(fr) ==
    \/ fr.f = "ENSLookup" /\ fr.at = "ens.resolver.addr"
    \/ fr.f = "reverseENSLookup" /\ fr.at = "ens.reverse.name"
    \/ fr.f = "getMarkdownForRegularAddress"

FetchKey(fr) == IF fr.f = "ENSLookup" THEN fr.name ELSE fr.address

\* C22: two handlers in progress never await the same fetch for the same
\* cache key: between two configuration changes and within one window of
\* the cache duration, one fetch is issued per key
C22_OneFetchPerKey ==
    \A j \in DOMAIN tasks : \A k \in DOMAIN tasks :
        (j # k /\ ~Idle(j) /\ ~Idle(k)) =>
            LET a == Top(tasks[j])
                b == Top(tasks[k])
            IN  ~(/\ IsCachedFetch(a)
                  /\ IsCachedFetch(b)
                  /\ a.f = b.f
                  /\ a.at = b.at
                  /\ FetchKey(a) = FetchKey(b))

\* the handlers in progress that are validation passes
PassesInProgress ==
    {k \in DOMAIN tasks : ~Idle(k) /\ HandlerFrame(tasks[k]).f = "validateTextDocument"}

\* C23: at most one validation pass is in progress: no pass starts or runs
\* while another is suspended at an external call
C23_OnePassAtATime == Cardinality(PassesInProgress) <= 1

(***************************************************************************)
(* The environment of a configuration change during a lookup: as in the    *)
(* interleaved environment a handler more than MaxTasks may be in          *)
(* progress; the editor edits the document and changes the settings        *)
(* between SETTINGS_INFURA and SETTINGS_AMBERDATA.                         *)
(***************************************************************************)
NextReconfigured ==
    \/ DidChangeContent(TEXT_NAME_TOKEN)
    \/ \E settings \in {SETTINGS_INFURA, SETTINGS_AMBERDATA} : DidChangeConfiguration(settings)
    \/ ResumeSomeTask

SpecReconfigured == InitInterleaved /\ [][NextReconfigured]_vars

\* C24: a lookup that completes with a name or an address writes it into
\* its cache, whether or not the configuration has changed, and the caches
\* have been cleared, since the lookup started
C24_LookupWritesAfterClear ==
    [][/\ \A i \in Returns(log', "ENSLookup") :
             log'[i].result # "" =>
                 /\ MapHas(ensCache', log'[i].arg)
                 /\ ensCache'[log'[i].arg] = log'[i].result
       /\ \A i \in Returns(log', "reverseENSLookup") :
             log'[i].result # "" =>
                 /\ MapHas(ensReverseCache', log'[i].arg)
                 /\ ensReverseCache'[log'[i].arg] = log'[i].result]_vars

\* the settings have changed and the pass started under the new settings
\* still awaits them; the pass started under the old ones is in progress,
\* and a cache, cleared by the change, holds an entry again
C24_Witness ==
    \E j \in DOMAIN tasks : \E k \in DOMAIN tasks :
        /\ j \in PassesInProgress
        /\ k \in PassesInProgress
        /\ HandlerFrame(tasks[j]).at = "getDocumentSettings"
        /\ HandlerFrame(tasks[j]).settings = clientSettings
        /\ HandlerFrame(tasks[k]).settings # clientSettings
        /\ Writes(log, "ensReverseCache") # {}
        /\ ensReverseCache # EmptyMap

\* the answer to a request for an ABI that getContractAbi does not accept
AbiRefetchFailed(resp) ==
    \/ resp.error
    \/ resp.body = None
    \/ resp.body[1].status # "1"
    \/ resp.body[1].result = None

\* C25: when the refetch for a stale entry of the ABI cache fails,
\* getContractAbi returns the ABI of the entry and leaves the entry as it
\* is; when the balance query of the refetch for a stale entry of the
\* markdown cache fails, the hover does not end with an exception and the
\* entry stays as it is
C25_StaleEntryServedWhenRefetchFails ==
    [][/\ \A i \in Returns(log', "getContractAbi") :
             (AbiRefetchFailed(log'[i].response) /\ MapHas(abiCache, log'[i].arg)) =>
                 /\ log'[i].result = Some(abiCache[log'[i].arg][2])
                 /\ abiCache' = abiCache
       /\ \A k \in DOMAIN tasks :
             (/\ ~Idle(k)
              /\ tasks'[k] # tasks[k]
              /\ Top(tasks[k]).f = "getMarkdownForRegularAddress"
              /\ Top(tasks[k]).at = "eth.getBalance"
              /\ MapHas(addressMarkdownCache, Top(tasks[k]).address)
              /\ Calls(log') = {}) =>
                 /\ sent'.outcome = "ok"
                 /\ (sent'.handler = "onHover" /\ Writes(log', "addressMarkdownCache") = {}) =>
                        addressMarkdownCache' = addressMarkdownCache]_vars

(***************************************************************************)
(* The environment of the code actions: the settings are SETTINGS_INFURA,  *)
(* the editor opens the document and asks for the code actions of one or   *)
(* two diagnostics, of every kind that validation publishes.               *)
(***************************************************************************)
SampleDiagnostic(severity, element, code) ==
    [severity |-> severity, range |-> element.range, message |-> "", source |-> NAME,
     code |-> code]

SampleDiagnostics ==
    LET first == possibleEthereumAddresses[TEXT_ADDRESSES][1]
        second == possibleEthereumAddresses[TEXT_ADDRESSES][2]
    IN  {SampleDiagnostic("Error", second, DIAGNOSTIC_TYPE_NOT_VALID_ADDRESS),
         SampleDiagnostic("Warning", first, DIAGNOSTIC_TYPE_NOT_CHECKSUM_ADDRESS \o VITALIK_ADDRESS),
         SampleDiagnostic("Hint", first, DIAGNOSTIC_TYPE_CONVERT_TO_ENS_NAME \o ENS_NAME),
         SampleDiagnostic("Hint", second, DIAGNOSTIC_TYPE_CONVERT_FROM_ENS_NAME \o DAI_ADDRESS),
         SampleDiagnostic("Hint", first, DIAGNOSTIC_TYPE_GENERATE_ABI \o VITALIK_ADDRESS),
         SampleDiagnostic("Hint", second, DIAGNOSTIC_TYPE_GENERATE_ABI \o DAI_ADDRESS)}

SampleContexts ==
    {<<d>> : d \in SampleDiagnostics} \cup {<<d, e>> : d \in SampleDiagnostics, e \in SampleDiagnostics}

NextCodeActions ==
    \/ DidChangeContent(TEXT_ADDRESSES)
    \/ \E diagnostics \in SampleContexts : IsOpen(Server, URI) /\ CodeAction(diagnostics)
    \/ ResumeSomeTask

SpecCodeActions == InitRequests /\ [][NextCodeActions]_vars

\* the text that follows the prefix in the code of a diagnostic
Payload(d, prefix) == SubSeq(d.code, Len(prefix) + 1, Len(d.code))

\* action replaces exactly the range of d by the payload of its code
ReplacesByPayload(action, d, prefix) ==
    /\ action.kind = "quickfix"
    /\ action.edit.range = d.range
    /\ action.edit.newText = Payload(d, prefix)

\* action inserts the declaration of abi at the start of the line after d
InsertsAbiAfter(action, d, abi) ==
    LET position == [line |-> d.range.end.line + 1, character |-> 0]
    IN  /\ action.kind = "refactor.extract"
        /\ action.edit.range = [start |-> position, end |-> position]
        /\ action.edit.newText = "\nconst CONTRACT_ABI = " \o abi \o "\n\n"

\* actions are the code actions of diagnostics, in their order: one edit
\* for a diagnostic with one of the three replacing prefixes, one insertion
\* or none for a generate-ABI diagnostic, an insertion only of the ABI
\* that the cache holds for its address, and nothing for any other
\* diagnostic
RECURSIVE ActionsMatch(_, _, _)
ActionsMatch(diagnostics, actions, cache) ==
    IF diagnostics = <<>> THEN actions = <<>>
    ELSE LET d == Head(diagnostics)
             replaced(prefix) ==
                 /\ actions # <<>>
                 /\ ReplacesByPayload(Head(actions), d, prefix)
                 /\ ActionsMatch(Tail(diagnostics), Tail(actions), cache)
         IN  IF StartsWith(d.code, "NotChecksumAddress") THEN replaced("NotChecksumAddress")
             ELSE IF StartsWith(d.code, "ConvertENSName") THEN replaced("ConvertENSName")
             ELSE IF StartsWith(d.code, "ConvertFromENSName") THEN replaced("ConvertFromENSName")
             ELSE IF StartsWith(d.code, "GenerateABI")
             THEN \/ /\ actions # <<>>
                     /\ MapHas(cache, Payload(d, "GenerateABI"))
                     /\ InsertsAbiAfter(Head(actions), d, cache[Payload(d, "GenerateABI")][2])
                     /\ ActionsMatch(Tail(diagnostics), Tail(actions), cache)
                  \/ ActionsMatch(Tail(diagnostics), actions, cache)
             ELSE ActionsMatch(Tail(diagnostics), actions, cache)

\* C26: the code actions returned for a list of diagnostics are, in the
\* order of the diagnostics, at most one per diagnostic: the replacement of
\* the diagnostic's range by the payload of its code for a not-checksummed,
\* convert-to-ENS or convert-from-ENS code, the insertion of the ABI at the
\* start of the next line for a generate-ABI code when there is an ABI,
\* and none for an invalid-address diagnostic
C26_OneActionPerDiagnostic ==
    (CodeActionEnded /\ sent.outcome = "ok" /\ IsOpen(Server, URI)) =>
        ActionsMatch(sent.frame.context, sent.result, abiCache)

\* the code actions of a warning and of a generate-ABI hint: a replacement
\* and an insertion
C26_Witness ==
    /\ CodeActionEnded
    /\ Len(sent.frame.context) = Len(sent.result)
    /\ \E k \in 1..Len(sent.result) : sent.result[k].kind = "quickfix"
    /\ \E k \in 1..Len(sent.result) : sent.result[k].kind = "refactor.extract"

(***************************************************************************)
(* getWord, applied to a line of text and an index in it.                  *)
(***************************************************************************)
WordTexts ==
    {"abc", "ab cd", "a.b c", ENS_NAME, "'" \o ENS_NAME \o "'", "x = " \o ENS_NAME \o "\n",
     "f(a, b.c)", "a1 b2\n", "to: v.eth", " a ", "-", ";x"}

WordInputs == {[text |-> text, index |-> index] : text \in WordTexts, index \in 0..3}
                  \cup {[text |-> text, index |-> Len(text) - back] :
                           text \in WordTexts, back \in 0..1}

InitWord ==
    /\ Init
    /\ ~hasConfigurationCapability
    /\ clientSettings = defaultSettings
    /\ input \in {i \in WordInputs : i.index \in 0..Len(i.text)}
    /\ output = NoOutput
    /\ external = AnyAnswers

GetWord == Applied("getWord", getWord(input.text, input.index))

NextWord == GetWord

SpecWord == InitWord /\ [][NextWord]_vars

IsWordChar(c) == c \in LetterChars \cup DigitChars \cup {"."}

\* the longest run of word characters of text that holds the character at
\* the 0-based position index, which is a word character
WordAround(text, index) ==
    LET p == index + 1
        starts == {a \in 1..p : \A i \in a..p : IsWordChar(Ch(text, i))}
        ends == {b \in p..Len(text) : \A i \in p..b : IsWordChar(Ch(text, i))}
        first == CHOOSE a \in starts : \A x \in starts : a <= x
        last == CHOOSE b \in ends : \A x \in ends : b >= x
    IN  SubSeq(text, first, last)

\* C27: for an index at a word character of the text, getWord returns the
\* longest run of alphanumeric-or-dot characters that holds it, also when
\* the run ends with the text
C27_GetWordReturnsMaximalRun ==
    (/\ output.fn = "getWord"
     /\ input.index < Len(input.text)
     /\ IsWordChar(Ch(input.text, input.index + 1))) =>
        output.value = WordAround(input.text, input.index)

(***************************************************************************)
(* The environment of the hovers: the settings are SETTINGS_INFURA and the  *)
(* outside world answers each lookup the same way throughout; the editor   *)
(* opens a document and asks for hovers over its address, key and name     *)
(* candidates.                                                             *)
(***************************************************************************)
StartsInside(locations) ==
    {[line |-> locations[k].range.start.line,
      character |-> locations[k].range.start.character + 1] : k \in 1..Len(locations)}

CandidatePositions(text) ==
    IF text \in ScannedTexts
    THEN StartsInside(possibleEthereumAddresses[text]) \cup StartsInside(possiblePublicKeys[text])
         \cup StartsInside(possibleEnsNames[text])
    ELSE {}

\* the states of the outside world in which no address has code and a name
\* resolves to VITALIK_ADDRESS or not at all
StatesWithoutCode ==
    {e \in ExternalStates : /\ e["eth.getCode"] = "0x"
                            /\ e["ens.resolver.addr"] \in {FAIL, VITALIK_ADDRESS}}

InitHover ==
    /\ InitServer
    /\ hasConfigurationCapability
    /\ clientSettings = SETTINGS_INFURA
    /\ tasks = [k \in 1..MaxTasks |-> <<>>]
    /\ input \in {TEXT_NAME_TOKEN, TEXT_KEYS}
    /\ output = NoOutput
    /\ external \in StatesWithoutCode

NextHover ==
    \/ DidChangeContent(input)
    \/ \E position \in CandidatePositions(TextOf(Server)) : Hover(position)
    \/ ResumeInExternalState

SpecHover == InitHover /\ [][NextHover]_vars

\* the frame of the call that the handler of a stack made
CalleeFrame(stack) == stack[Len(stack) - 1]

\* the hover in progress renders address
Renders(stack, address) ==
    /\ Len(stack) > 1
    /\ HandlerFrame(stack).at = "getHoverMarkdownForAddress"
    /\ CalleeFrame(stack).f = "getHoverMarkdownForAddress"
    /\ CalleeFrame(stack).address = address

\* the hover in progress awaits the forward lookup of name
LooksUp(stack, name) ==
    /\ Len(stack) > 1
    /\ HandlerFrame(stack).at = "ENSLookup"
    /\ CalleeFrame(stack).f = "ENSLookup"
    /\ CalleeFrame(stack).name = name

\* C28: a hover in progress over a word that is a valid address renders
\* the word and has made no forward lookup of it; over a word that is no
\* valid address and decodes as a private key it renders the address
\* derived from the key and has made no forward lookup of it; over any
\* other word it awaits the forward lookup of the word or renders the
\* address the lookup gave; and a hover that ends at the lookup is empty
C28_HoverPriority ==
    /\ \A k \in DOMAIN tasks :
          (~Idle(k) /\ HandlerFrame(tasks[k]).f = "onHover") =>
              LET word == HandlerFrame(tasks[k]).word
                  lookup == \E i \in 1..Len(tasks[k]) :
                                tasks[k][i].f = "ENSLookup" /\ tasks[k][i].name = word
              IN  IF isValidEthereumAddress(word)
                  THEN Renders(tasks[k], word) /\ ~lookup
                  ELSE IF isPrivateKey(normalizeHex(word))
                  THEN Renders(tasks[k], toPublicKey(normalizeHex(word))) /\ ~lookup
                  ELSE \/ LooksUp(tasks[k], word)
                       \/ /\ \E address \in {VITALIK_ADDRESS, DAI_ADDRESS} :
                                Renders(tasks[k], address)
                          /\ MapHas(ensCache, word)
                          /\ Renders(tasks[k], ensCache[word])
    /\ (sent.handler = "onHover" /\ sent.frame.at = "ENSLookup") =>
          /\ sent.result = ""
          /\ ~isValidEthereumAddress(sent.frame.word)
          /\ ~isPrivateKey(normalizeHex(sent.frame.word))
    /\ (sent.handler = "onHover" /\ sent.outcome = "ok" /\ sent.frame.word # ""
        /\ (isValidEthereumAddress(sent.frame.word)
            \/ isPrivateKey(normalizeHex(sent.frame.word)))) =>
          /\ sent.frame.at = "getHoverMarkdownForAddress"
          /\ sent.result # ""

\* a hover over the key one is in progress and renders KEY_ONE_ADDRESS
C28_Witness ==
    \E k \in DOMAIN tasks :
        /\ ~Idle(k)
        /\ HandlerFrame(tasks[k]).f = "onHover"
        /\ HandlerFrame(tasks[k]).word = PRIVATE_KEY_ONE
        /\ Renders(tasks[k], KEY_ONE_ADDRESS)

\* the returns of isContract in the last step
ContractReturns ==
    {log[i] : i \in {j \in 1..Len(log) : log[j].op = "return" /\ log[j].fn = "isContract"}}

\* the code queries of the last step
CodeQueries ==
    {log[i] : i \in {j \in 1..Len(log) : log[j].op = "call" /\ log[j].api = "eth.getCode"}}

\* C29: isContract returns true exactly when a provider is configured and
\* the code query for the address is answered with code other than "0x";
\* without a provider it returns without a code query for the address
C29_IsContract ==
    \A e \in ContractReturns :
        /\ e.called = (web3provider # UNDEFINED)
        /\ e.result = (/\ web3provider # UNDEFINED
                       /\ e.called
                       /\ e.response # FAIL
                       /\ e.response # "0x")
        /\ ~e.called => \A q \in CodeQueries : q.arg # e.arg

\* isContract returned true for an address with code, returned false after
\* a failed query, or returned false without a provider
C29_Witness ==
    /\ \E e \in ContractReturns : e.called /\ e.response = "0x6080" /\ e.result
    /\ TextOf(Server) # ""

C29_WitnessFailed == \E e \in ContractReturns : e.called /\ e.response = FAIL /\ ~e.result

C29_WitnessNoProvider == \E e \in ContractReturns : ~e.called /\ ~e.result

\* the location l of a scan of text has its content between two quotes of
\* the text, and its range spans the content and neither quote
BetweenQuotes(text, l) ==
    LET start == OffsetAt(text, l.range.start)
        end == OffsetAt(text, l.range.end)
        length == Len(l.content)
    IN  /\ start >= 1
        /\ Ch(text, start) \in QuoteChars
        /\ end = start + length
        /\ end < Len(text)
        /\ SubSeq(text, start + 1, end) = l.content
        /\ Ch(text, end + 1) \in QuoteChars
        /\ \A i \in 1..length : Ch(l.content, i) \notin QuoteChars
        /\ l.range.start.line = l.range.end.line
        /\ l.range.end.character = l.range.start.character + length

\* C30: every candidate that findPossibleENSNames reports has for content
\* the matched string without its two quotes, and a range that starts one
\* character after the opening quote and spans the content's length
C30_ENSCandidateExcludesQuotes ==
    output.fn = "findPossibleENSNames" =>
        \A i \in 1..Len(output.value) : BetweenQuotes(input, output.value[i])

\* the scan reported a name on the second line of a text
C30_Witness ==
    /\ output.fn = "findPossibleENSNames"
    /\ \E i \in 1..Len(output.value) :
          /\ output.value[i].content = ENS_NAME
          /\ output.value[i].range.start.line = 1

(***************************************************************************)
(* The environment of the token list: the list holds two mainnet tokens,   *)
(* and the clock may advance while the list is turned into the snapshot.   *)
(* A validation pass sets the cache duration; completions ask for the      *)
(* snapshot.                                                               *)
(***************************************************************************)
TOKEN_LIST_TWO ==
    [tokens |-> <<[name |-> "Dai Stablecoin", symbol |-> "DAI",
                   address |-> ToLowerCase(DAI_ADDRESS), chainId |-> "1"],
                  [name |-> "Second Token", symbol |-> "SEC",
                   address |-> ToLowerCase(VITALIK_ADDRESS), chainId |-> "1"]>>]

TokenListResponses(g) ==
    {HttpError}
    \cup {[error |-> FALSE, body |-> Some(TOKEN_LIST_TWO), elapsed |-> elapsed] :
             elapsed \in {e \in 0..1 : g.now + e <= MaxTime}}

ResumeWithTokenList ==
    \E k \in {j \in DOMAIN tasks : ~Idle(j)} :
        \E resp \in IF Top(tasks[k]).at = "request.tokenList" THEN TokenListResponses(Server)
                     ELSE Responses(Server, Top(tasks[k])) :
            ResumeTask(k, resp)

NextTopTokens ==
    \/ DidChangeContent(TEXT_LOWER_CHECKSUM)
    \/ Completion(PositionAt(TextOf(Server), 0))
    \/ ResumeWithTokenList
    \/ Tick

SpecTopTokens == InitRequests /\ [][NextTopTokens]_vars

\* the snapshots that getTopTokens served from the cache in the last step
SnapshotsServed ==
    {log[i].value : i \in {j \in 1..Len(log) : /\ log[j].op = "hit"
                                                  /\ log[j].cache = "topTokensCache"}}

\* C31: getTopTokens serves the cached snapshot only if the lastUpdated of
\* every entry is within the cache duration, and downloads the list again
\* only if the snapshot is empty or the lastUpdated of some entry is not
C31_SnapshotServedOnlyWhenAllFresh ==
    /\ \A snapshot \in SnapshotsServed :
          \A address \in DOMAIN snapshot : IsFresh(Server, snapshot[address].lastUpdated)
    /\ (\E i \in 1..Len(log) : log[i].op = "call" /\ log[i].api = "request.tokenList") =>
          \/ topTokensCache = EmptyMap
          \/ \E address \in DOMAIN topTokensCache :
                 ~IsFresh(Server, topTokensCache[address].lastUpdated)

\* C32: at the end of a validation pass whose settings have an empty Infura
\* project ID and an Amberdata key, the provider is the Amberdata endpoint
\* built from that key
C32_AmberdataProviderWithoutInfura ==
    (/\ ValidationEnded
     /\ sent.frame.settings.infuraProjectId = ""
     /\ sent.frame.settings.amberdataApiKey # "") =>
        web3provider = AmberdataProvider(sent.frame.settings.amberdataApiKey)

(***************************************************************************)
(* The environment of the cache duration: the editor opens a document and  *)
(* changes the settings among ones that differ in cacheDuration only:      *)
(* unset, negative, zero and positive.                                     *)
(***************************************************************************)
DurationSettings ==
    {[SETTINGS_INFURA EXCEPT !.cacheDuration = duration] :
        duration \in {None, Some(-1), Some(0), Some(1), Some(DEFAULT_CACHE_DURATION)}}

NextCacheDuration ==
    \/ DidChangeContent(TEXT_LOWER_CHECKSUM)
    \/ \E settings \in DurationSettings : DidChangeConfiguration(settings)
    \/ ResumeSomeTask

SpecCacheDuration == InitRequests /\ [][NextCacheDuration]_vars

\* task k is a validation pass that was given its settings in the step
SettingsArrived(k) ==
    /\ ValidationStepped(k)
    /\ HandlerFrame(tasks[k]).at = "getDocumentSettings"

\* C33: once a validation pass has its settings the cache duration is a
\* number that is not negative: 60000 if the configured cacheDuration is
\* undefined or negative, and the configured value, zero included, if not
C33_CacheDurationNonNegative ==
    [][\A k \in DOMAIN tasks :
          SettingsArrived(k) =>
              LET configured == HandlerFrame(tasks[k]).settings.cacheDuration
              IN  /\ cacheDurationSetting' # None
                  /\ cacheDurationSetting'[1] >= 0
                  /\ (configured = None => cacheDurationSetting'[1] = 60000)
                  /\ (configured # None /\ configured[1] < 0 =>
                          cacheDurationSetting'[1] = 60000)
                  /\ (configured # None /\ configured[1] >= 0 =>
                          cacheDurationSetting'[1] = configured[1])]_vars

\* a pass with a configured cacheDuration of zero has ended
C33_Witness ==
    /\ ValidationEnded
    /\ sent.frame.settings.cacheDuration = Some(0)
    /\ cacheDurationSetting = Some(0)

\* a pass with a negative configured cacheDuration has ended
C33_WitnessNegative ==
    /\ ValidationEnded
    /\ sent.frame.settings.cacheDuration = Some(-1)
    /\ cacheDurationSetting = Some(DEFAULT_CACHE_DURATION)

(***************************************************************************)
(* The environment of the code lens resolution: the settings are           *)
(* SETTINGS_INFURA, the editor opens a document with a token address or    *)
(* one with a key, and resolves the lenses of its candidates.              *)
(***************************************************************************)
NextLensResolve ==
    \/ \E text \in {TEXT_NAME_TOKEN, TEXT_KEYS} : DidChangeContent(text)
    \/ \E codeLens \in LensesOf(TextOf(Server)) : CodeLensResolve(codeLens)
    \/ ResumeSomeTask

SpecLensResolve == InitRequests /\ [][NextLensResolve]_vars

LensResolved == sent.handler = "onCodeLensResolve" /\ sent.outcome = "ok"

CachesUnchanged ==
    UNCHANGED <<ensCache, ensReverseCache, tokenCache, topTokensCache, addressMarkdownCache,
                abiCache>>

\* the lookups of a step: the external calls and the cache reads
Lookups(l) == {i \in 1..Len(l) : l[i].op \in {"call", "hit", "miss"}}

\* C34: the resolution of a lens of a network other than mainnet attaches
\* the link labelled with the network for the address of the lens, makes
\* no lookup and leaves every cache unchanged; a resolution that awaits a
\* lookup is one of a mainnet lens, and the resolution of a mainnet lens
\* ends after the reverse lookup and the token lookup
C34_TestnetLensResolvedWithoutLookups ==
    [][/\ (LensResolved' /\ sent'.frame.codeLens.data[2] # MAINNET) =>
            LET codeLens == sent'.frame.codeLens
                network == codeLens.data[2]
            IN  /\ sent'.result.range = codeLens.range
                /\ sent'.result.data = codeLens.data
                /\ sent'.result.command.title = "(" \o network \o ")"
                /\ sent'.result.command.arguments =
                       <<"https://" \o network \o ".etherscan.io/address/" \o codeLens.data[3]>>
                /\ Lookups(log') = {}
                /\ sent'.frame.calls = {}
                /\ CachesUnchanged
       /\ \A k \in DOMAIN tasks' :
             (tasks'[k] # <<>> /\ HandlerFrame(tasks'[k]).f = "onCodeLensResolve") =>
                 HandlerFrame(tasks'[k]).codeLens.data[2] = MAINNET
       /\ (LensResolved' /\ sent'.frame.codeLens.data[2] = MAINNET) =>
             sent'.frame.at = "getTopTokens"]_vars

\* a ropsten lens was resolved while the caches held entries
C34_Witness ==
    /\ LensResolved
    /\ sent.frame.codeLens.data[2] = ROPSTEN
    /\ sent.result.command.title = "(ropsten)"
    /\ ensReverseCache # EmptyMap

(***************************************************************************)
(* The environment of the edits: the editor changes the document between   *)
(* two texts while validation passes of it are in progress.                *)
(***************************************************************************)
NextEdits ==
    \/ \E text \in {TEXT_ADDRESSES, TEXT_NAME_TOKEN} : DidChangeContent(text)
    \/ ResumeSomeTask

SpecEdits == InitInterleaved /\ [][NextEdits]_vars

\* C35: when a validation pass publishes and no pass is in progress any
\* more, the diagnostics published are those of a scan of the latest text
C35_LastPublishedIsOfLatestText ==
    (ValidationEnded /\ \A k \in DOMAIN tasks : Idle(k)) =>
        /\ sent.frame.addresses = possibleEthereumAddresses[TextOf(Server)]
        /\ published[URI] = sent.result

(***************************************************************************)
(* The environment of the progress of a pass: the editor changes the       *)
(* document, and every external call that a handler awaits is answered in  *)
(* the end, with a result or with a failure.                               *)
(***************************************************************************)
ResumeOf(k) ==
    /\ ~Idle(k)
    /\ \E resp \in Responses(Server, Top(tasks[k])) : ResumeTask(k, resp)

NextProgress ==
    \/ \E text \in {TEXT_ADDRESSES, TEXT_NAME_TOKEN} : DidChangeContent(text)
    \/ \E k \in DOMAIN tasks : ResumeOf(k)

\* weak fairness of ResumeOf(k): the action is enabled exactly when slot k
\* holds a handler, because every call has an answer and an answer changes
\* the handler's stack, so that WF_vars(ResumeOf(k)) reads as follows
EveryCallReturns == \A k \in 1..MaxTasks : []<>Idle(k) \/ []<><<ResumeOf(k)>>_vars

SpecProgress == InitRequests /\ [][NextProgress]_vars /\ EveryCallReturns

\* the pass in slot k sent its diagnostics in the last step
PassPublished(k) ==
    /\ Idle(k)
    /\ ValidationEnded
    /\ sent.outcome = "ok"
    /\ MapHas(published, sent.frame.uri)
    /\ published[sent.frame.uri] = sent.result

\* C36: a validation pass in progress publishes in the end, it publishes
\* in the step that ends it and in no step before, and diagnostics are
\* published only in a step that ends a pass
C36_PassPublishesOnce ==
    /\ \A k \in 1..MaxTasks :
          (~Idle(k) /\ HandlerFrame(tasks[k]).f = "validateTextDocument") ~> PassPublished(k)
    /\ [][/\ \A k \in DOMAIN tasks :
               (ValidationStepped(k) /\ tasks'[k] # <<>>) =>
                   (~ValidationEnded' /\ published' = published)
          /\ (ValidationEnded' \/ published' # published) =>
               Cardinality({k \in DOMAIN tasks : ValidationStepped(k) /\ tasks'[k] = <<>>}) = 1]_vars

\* a pass published after it had awaited a forward lookup
C36_Witness ==
    /\ ValidationEnded
    /\ "ens.resolver.addr" \in sent.frame.calls
    /\ published[URI] = sent.result

\* C37: when a code action request ends, the diagnostics it received are
\* as the request carried them, and the diagnostic attached to a returned
\* code action is one of them
C37_DiagnosticsUnchanged ==
    (sent.handler = "onCodeAction" /\ sent.outcome = "ok") =>
        /\ sent.frame.diagnostics = sent.frame.context
        /\ \A i \in 1..Len(sent.result) :
              \E j \in 1..Len(sent.frame.context) :
                  sent.result[i].diagnostics = <<sent.frame.context[j]>>

\* the token snapshots that getTopTokens returned in the step that log l records
SnapshotsGiven(l) ==
    {l[i].value : i \in {j \in 1..Len(l) : l[j].op = "hit" /\ l[j].cache = "topTokensCache"}}
    \cup {l[i].result : i \in {j \in 1..Len(l) : l[j].op = "return" /\ l[j].fn = "getTopTokens"}}

\* the stack is one of a hover that renders an address, at the given stage
HoverAt(stack, at) ==
    /\ Len(stack) > 1
    /\ HandlerFrame(stack).f = "onHover"
    /\ CalleeFrame(stack).f = "getHoverMarkdownForAddress"
    /\ CalleeFrame(stack).at = at

TokenBlockOnly(markdown) ==
    StartsWith(markdown, "**Token: ") /\ ~Includes(markdown, "**Ethereum Address**")

HoverCachesUnchanged == UNCHANGED <<addressMarkdownCache, ensReverseCache>>

\* C38: a hover that is given a token snapshot takes the token path if the
\* address is a key of the snapshot and the regular-address path if it is
\* not; a hover over an address of the snapshot renders the token block
\* only, and no step of its token path changes the address markdown cache
\* or the reverse cache
C38_TokenHoverRendersTokenOnly ==
    [][/\ \A k \in DOMAIN tasks :
            (tasks'[k] # tasks[k] /\ tasks'[k] # <<>>) =>
                /\ \A m \in SnapshotsGiven(log') :
                      /\ HoverAt(tasks'[k], "getMarkdownForToken") =>
                             MapHas(m, CalleeFrame(tasks'[k]).address)
                      /\ HoverAt(tasks'[k], "getMarkdownForRegularAddress") =>
                             ~MapHas(m, CalleeFrame(tasks'[k]).address)
                /\ HoverAt(tasks'[k], "getMarkdownForToken") => HoverCachesUnchanged
       /\ \A k \in DOMAIN tasks :
            (tasks'[k] # tasks[k] /\ HoverAt(tasks[k], "getMarkdownForToken")) =>
                /\ tasks'[k] = <<>>
                /\ sent'.handler = "onHover"
                /\ TokenBlockOnly(sent'.result)
                /\ HoverCachesUnchanged
       /\ (/\ sent'.handler = "onHover"
           /\ sent'.outcome = "ok"
           /\ isValidEthereumAddress(sent'.frame.word)
           /\ \E m \in SnapshotsGiven(log') : MapHas(m, sent'.frame.word)) =>
               /\ TokenBlockOnly(sent'.result)
               /\ HoverCachesUnchanged]_vars

\* a hover over the Dai address rendered the token block while both caches
\* held entries
C38_Witness ==
    /\ sent.handler = "onHover"
    /\ sent.frame.word = DAI_ADDRESS
    /\ TokenBlockOnly(sent.result)
    /\ "request.coingecko" \in sent.frame.calls
    /\ ensReverseCache # EmptyMap

(***************************************************************************)
(* The environment of the token spellings: the document holds the Dai      *)
(* address in lower case, in upper case and in checksum form; the editor   *)
(* asks for hovers over the three and resolves their mainnet lenses.  The  *)
(* outside world answers each lookup the same way throughout.              *)
(***************************************************************************)
InitTokenCases ==
    /\ InitServer
    /\ hasConfigurationCapability
    /\ clientSettings = SETTINGS_INFURA
    /\ tasks = [k \in 1..MaxTasks |-> <<>>]
    /\ input = TEXT_TOKEN_CASES
    /\ output = NoOutput
    /\ external \in StatesWithoutCode

NextTokenCases ==
    \/ DidChangeContent(input)
    \/ \E position \in CandidatePositions(TextOf(Server)) : Hover(position)
    \/ \E codeLens \in {l \in LensesOf(TextOf(Server)) : l.data[2] = MAINNET} :
          CodeLensResolve(codeLens)
    \/ ResumeInExternalState

SpecTokenCases == InitTokenCases /\ [][NextTokenCases]_vars

OtherSpellings == {DAI_LOWER, DAI_UPPER}

\* C39: getToken gives a token only for the address that is the token's
\* address character for character; a hover over the lower-case or the
\* upper-case spelling of a token's address renders the regular address,
\* and the mainnet lens of such a spelling is resolved as an address
C39_TokenLookupIsCaseSensitive ==
    /\ \A m \in SnapshotsGiven(log) :
          \A a \in OtherSpellings \cup {DAI_ADDRESS} :
              getToken(m, a) # None => getToken(m, a)[1].address = a
    /\ (sent.handler = "onHover" /\ sent.outcome = "ok" /\ sent.frame.word \in OtherSpellings) =>
          StartsWith(sent.result, "**Ethereum Address**: " \o sent.frame.word)
    /\ (/\ LensResolved
        /\ sent.frame.codeLens.data[2] = MAINNET
        /\ sent.frame.codeLens.data[3] \in OtherSpellings) =>
          /\ Includes(sent.result.command.title,
                      "Ethereum address (mainnet): " \o sent.frame.codeLens.data[3])
          /\ ~Includes(sent.result.command.title, "Dai Stablecoin")

\* the mainnet lens of the lower-case spelling was resolved when the token
\* snapshot held the Dai token
C39_Witness ==
    /\ LensResolved
    /\ sent.frame.codeLens.data[3] = DAI_LOWER
    /\ MapHas(topTokensCache, DAI_ADDRESS)
    /\ Includes(sent.result.command.title, "Ethereum address (mainnet): " \o DAI_LOWER)

\* a hover over the upper-case spelling rendered the regular address when
\* the token snapshot held the Dai token
C39_WitnessHover ==
    /\ sent.handler = "onHover"
    /\ sent.outcome = "ok"
    /\ sent.frame.word = DAI_UPPER
    /\ MapHas(topTokensCache, DAI_ADDRESS)
    /\ StartsWith(sent.result, "**Ethereum Address**: " \o DAI_UPPER)

\* the checksum spelling is resolved as the token
C39_WitnessToken ==
    /\ LensResolved
    /\ sent.frame.codeLens.data[3] = DAI_ADDRESS
    /\ Includes(sent.result.command.title, "Dai Stablecoin (DAI) | Ethereum token (mainnet): ")

====
